---- MODULE Spec2Model ----
(***************************************************************************)
(* Cross-chain atomic swap: the EVM escrow factory and its source and      *)
(* destination escrows (MinimalEscrowFactory, MinimalEscrowSrc,            *)
(* MinimalEscrowDst, MinimalEscrow), the Bitcoin HTLC (BitcoinHTLC) and    *)
(* the off-chain coordinator (SwapCoordinator, CrossChainSwapTester).      *)
(*                                                                         *)
(* Time is counted in ticks; stage offsets are small numbers of ticks.    *)
(* A packed timelock word has eight lanes of LaneBits bits each; the       *)
(* contracts use 32-bit lanes in a 256-bit word, the model keeps the lane  *)
(* layout and scales the lane width so that words fit the checker's        *)
(* integers.                                                               *)
(*                                                                         *)
(* Hash functions are modelled as collision-free functions: SHA-256 and    *)
(* Keccak-256 are two different injections with disjoint ranges, the       *)
(* commitment of an immutables struct is the tuple of its eight fields in  *)
(* wire order, and a CREATE2 clone address is the tuple of everything it   *)
(* is derived from.                                                        *)
(***************************************************************************)
EXTENDS Integers, Sequences, FiniteSets, TLC

(***************************************************************************)
(* Bounds of the model.                                                    *)
(***************************************************************************)
MaxTime == 6
MaxEscrows == 1
MaxDeployTime == 1
NumSecrets == 2
LaneBits == 3

(***************************************************************************)
(* Stage ordinals of the packed timelock word (lane index).                *)
(***************************************************************************)
SrcWithdrawal == 0
SrcPublicWithdrawal == 1
SrcCancellation == 2
SrcPublicCancellation == 3
DstWithdrawal == 4
DstPublicWithdrawal == 5
DstCancellation == 6
DeployedAtLane == 7

(***************************************************************************)
(* Accounts.  An address is a tuple of integers: externally owned accounts *)
(* and the contracts deployed once are one-element tuples, a clone's       *)
(* address is the tuple built by predictDeterministicAddress.              *)
(***************************************************************************)
ZeroAddress == <<0>>
Maker == <<1>>
Taker == <<2>>
Other == <<3>>
FACTORY == <<4>>
ESCROW_SRC_IMPLEMENTATION == <<5>>
ESCROW_DST_IMPLEMENTATION == <<6>>
TokenAddr == <<7>>
CloneTag == 0 - 1

Users == {Maker, Taker, Other}

\* AddressLib.get: the address held in an Address-typed (uint256) field.
AddressLib_get(a) == <<a>>

(***************************************************************************)
(* Hashes.                                                                 *)
(***************************************************************************)
Secrets == 1..NumSecrets

\* The length in bytes of a hash.
HashLen == 32

\* A byte buffer is a sequence of integers; the buffer of secret s is <<s>>.
EmptyBuffer == <<>>

\* An idealised hash function: the digest of buffer b under the function
\* named by `tag` is a buffer of HashLen bytes that differs for different
\* tags and different (short) buffers.
Digest(tag, b) ==
  [i \in 1..HashLen |->
     IF i = 1 THEN tag
     ELSE IF i = 2 THEN Len(b)
     ELSE IF i - 2 <= Len(b) THEN b[i - 2] ELSE 0]

\* bitcoin.crypto.sha256 / OP_SHA256 of a buffer
sha256(b) == Digest(1, b)

\* bitcoin.crypto.sha256 of the buffer of secret s
SHA256(s) == sha256(<<s>>)

\* keccak256 of a bytes32 secret (EVM side)
Keccak256(s) == Digest(2, <<s>>)

\* ImmutablesLib.hash / hashMem: keccak256 of the eight ABI-encoded fields.
hash(immutables) ==
  << immutables.orderHash, immutables.hashlock, immutables.maker,
     immutables.taker, immutables.token, immutables.amount,
     immutables.safetyDeposit, immutables.timelocks >>

hashMem(immutables) == hash(immutables)

\* Clones.predictDeterministicAddress(implementation, salt, deployer):
\* the CREATE2 address of a minimal proxy of `implementation`.
predictDeterministicAddress(implementation, salt, deployer) ==
  <<CloneTag, Len(implementation)>> \o implementation \o salt
     \o <<Len(deployer)>> \o deployer

(***************************************************************************)
(* Timelock codec.                                                         *)
(***************************************************************************)
LaneMod == 2 ^ LaneBits

Lane(word, i) == (word \div (2 ^ (LaneBits * i))) % LaneMod

\* TimelocksLib.get: the absolute timestamp of a stage.
get(timelocks, stage) == Lane(timelocks, DeployedAtLane) + Lane(timelocks, stage)

\* TimelocksLib.setDeployedAt: overwrite the deployment-timestamp lane only.
setDeployedAt(timelocks, value) ==
  (timelocks % (2 ^ (LaneBits * DeployedAtLane)))
    + (value % LaneMod) * (2 ^ (LaneBits * DeployedAtLane))

RECURSIVE BitOr(_, _)
BitOr(a, b) ==
  IF a = 0 THEN b
  ELSE IF b = 0 THEN a
  ELSE (IF a % 2 = 1 \/ b % 2 = 1 THEN 1 ELSE 0) + 2 * BitOr(a \div 2, b \div 2)

\* The off-chain packing of the seven stage offsets (bitwise OR of shifted
\* offsets, stage i shifted by i lanes).
RECURSIVE packFrom(_, _)
packFrom(timeouts, i) ==
  IF i > Len(timeouts) THEN 0
  ELSE BitOr(timeouts[i] * (2 ^ (LaneBits * (i - 1))), packFrom(timeouts, i + 1))

\* Variant: the offsets of the first two stages in each other's lane.
packTimelocks_Swapped(timeouts) ==
  packFrom([timeouts EXCEPT ![1] = timeouts[2], ![2] = timeouts[1]], 1)

packTimelocks(timeouts) == packFrom(timeouts, 1)

(***************************************************************************)
(* Inputs the environment draws from.                                      *)
(***************************************************************************)
NativeToken == 0
OrderHash == 1
Principal == 2
Deposit == 1
InitialEth == 4
InitialTok == 3

\* Offsets in stage order: a valid set (source 2,3,4,5; destination 1,2,3),
\* the same set with the deployment lane already filled by the caller, the
\* set of the factory test (source lanes left zero) and a destination set
\* out of order.
TimelockChoices ==
  { packTimelocks(<<2, 3, 4, 5, 1, 2, 3>>),
    packTimelocks(<<2, 3, 4, 5, 1, 2, 3, 5>>),
    packTimelocks(<<0, 0, 0, 0, 1, 2, 3>>),
    packTimelocks(<<2, 3, 4, 5, 3, 2, 3>>) }

\* Further offsets offered to createDstEscrow: destination cancellation not
\* before source cancellation, and destination public withdrawal not before
\* destination cancellation.
DstTimelockChoices ==
  TimelockChoices
    \cup { packTimelocks(<<2, 3, 4, 5, 1, 2, 4>>),
           packTimelocks(<<2, 3, 4, 5, 1, 3, 3>>) }

ImmutablesWith(choices) ==
  { [orderHash |-> OrderHash, hashlock |-> Keccak256(1), maker |-> Maker[1],
     taker |-> Taker[1], token |-> tk, amount |-> Principal,
     safetyDeposit |-> Deposit, timelocks |-> tl] :
       tk \in {NativeToken, TokenAddr[1]}, tl \in choices }

CreationImmutables == ImmutablesWith(TimelockChoices)

DstCreationImmutables == ImmutablesWith(DstTimelockChoices)

NoImmutables ==
  [orderHash |-> 0, hashlock |-> EmptyBuffer, maker |-> 0, taker |-> 0, token |-> 0,
   amount |-> 0, safetyDeposit |-> 0, timelocks |-> 0]

\* Immutables a caller may present to an escrow: the ones it was deployed
\* with and copies that differ in one field.
PresentedImmutables(imm, sender) ==
  { imm,
    [imm EXCEPT !.taker = sender[1]],
    [imm EXCEPT !.timelocks = setDeployedAt(@, 0)] }

(***************************************************************************)
(* State.                                                                  *)
(***************************************************************************)
VARIABLES
  now,      \* block.timestamp
  code,     \* deployed clones: clone address -> implementation address
  created,  \* clone address -> what it was created with (creation events)
  eth,      \* native balance of every account
  tok,      \* ERC-20 balance of every account
  last,     \* the last transaction and its outcome
  events,   \* events emitted by the factory and the escrows
  revealed, \* secrets published so far (events, witnesses, console)
  swap,     \* the coordinator's swap data
  htlc      \* the Bitcoin HTLC output

vars == <<now, code, created, eth, tok, last, events, revealed, swap, htlc>>

Tx(op, sender, escrow, secret, immutables, target, value, ok) ==
  [op |-> op, sender |-> sender, escrow |-> escrow, secret |-> secret,
   immutables |-> immutables, target |-> target, value |-> value, ok |-> ok,
   time |-> now, srcCancellationTimestamp |-> 0]

\* Move amount from one account to another in a balance map.
Move(bal, from, to, amount) ==
  IF from = to THEN bal
  ELSE [bal EXCEPT ![from] = @ - amount, ![to] = @ + amount]

\* Add a fresh account (a newly deployed clone) to a balance map.
WithAccount(bal, a) == [x \in DOMAIN bal \cup {a} |-> IF x \in DOMAIN bal THEN bal[x] ELSE 0]

(***************************************************************************)
(* Guards of the escrow (modifiers of the base escrow).                    *)
(***************************************************************************)
onlyTaker(sender, immutables) == sender = AddressLib_get(immutables.taker)

onlyAfter(start) == now >= start

onlyBefore(stop) == now < stop

onlyValidSecret(secret, immutables) == Keccak256(secret) = immutables.hashlock

\* A self-check that accepts every immutables struct.
_validateImmutables_Always(self, immutables) == TRUE

\* MinimalEscrow._validateImmutables: the address predicted from the
\* presented immutables must be the address of the executing contract.
_validateImmutables(self, immutables) ==
  predictDeterministicAddress(self, hash(immutables), FACTORY) = self

(***************************************************************************)
(* Transfers.  Each yields the balances after it and whether it went       *)
(* through; a failed transfer reverts the whole transaction.               *)
(***************************************************************************)
\* IERC20(token).safeTransfer(to, amount) executed by `self`.
safeTransfer(bal, token, self, to, amount) ==
  LET ok == token = TokenAddr /\ bal.tok[self] >= amount
  IN  [ok |-> bal.ok /\ ok, eth |-> bal.eth,
       tok |-> IF bal.ok /\ ok THEN Move(bal.tok, self, to, amount) ELSE bal.tok]

\* _ethTransfer(to, amount) executed by `self`.
_ethTransfer(bal, self, to, amount) ==
  LET ok == bal.eth[self] >= amount
  IN  [ok |-> bal.ok /\ ok, tok |-> bal.tok,
       eth |-> IF bal.ok /\ ok THEN Move(bal.eth, self, to, amount) ELSE bal.eth]

\* _uniTransfer(token, to, amount) executed by `self`.
_uniTransfer(bal, token, self, to, amount) ==
  IF token = ZeroAddress THEN _ethTransfer(bal, self, to, amount)
  ELSE safeTransfer(bal, token, self, to, amount)

Balances == [ok |-> TRUE, eth |-> eth, tok |-> tok]

Reverted == [ok |-> FALSE, eth |-> eth, tok |-> tok]

(***************************************************************************)
(* MinimalEscrowSrc.                                                       *)
(***************************************************************************)
\* The body of _withdrawTo: the two transfers.
Src_withdrawTo_transfers(self, sender, target, immutables) ==
  _ethTransfer(
    safeTransfer(Balances, AddressLib_get(immutables.token), self, target,
                 immutables.amount),
    self, sender, immutables.safetyDeposit)

\* _withdrawTo: onlyValidImmutables, onlyValidSecret, then the transfers.
Src_withdrawTo(self, sender, secret, target, immutables) ==
  IF _validateImmutables(self, immutables) /\ onlyValidSecret(secret, immutables)
  THEN Src_withdrawTo_transfers(self, sender, target, immutables)
  ELSE Reverted

\* The body of _cancel: the two transfers.
Src_cancel_transfers(self, sender, immutables) ==
  _ethTransfer(
    safeTransfer(Balances, AddressLib_get(immutables.token), self,
                 AddressLib_get(immutables.maker), immutables.amount),
    self, sender, immutables.safetyDeposit)

\* _cancel: onlyValidImmutables, then the transfers.
Src_cancel(self, sender, immutables) ==
  IF _validateImmutables(self, immutables)
  THEN Src_cancel_transfers(self, sender, immutables)
  ELSE Reverted

\* withdraw / withdrawTo
SrcWithdrawCall(self, sender, secret, target, immutables) ==
  IF /\ onlyTaker(sender, immutables)
     /\ onlyAfter(get(immutables.timelocks, SrcWithdrawal))
     /\ onlyBefore(get(immutables.timelocks, SrcCancellation))
  THEN Src_withdrawTo(self, sender, secret, target, immutables)
  ELSE Reverted

\* cancel
SrcCancelCall(self, sender, immutables) ==
  IF /\ onlyTaker(sender, immutables)
     /\ onlyAfter(get(immutables.timelocks, SrcCancellation))
  THEN Src_cancel(self, sender, immutables)
  ELSE Reverted

(***************************************************************************)
(* MinimalEscrowDst.                                                       *)
(***************************************************************************)
\* The body of _withdraw: the two transfers.
Dst_withdraw_transfers(self, sender, immutables) ==
  _ethTransfer(
    _uniTransfer(Balances, AddressLib_get(immutables.token), self,
                 AddressLib_get(immutables.maker), immutables.amount),
    self, sender, immutables.safetyDeposit)

\* _withdraw: onlyValidImmutables, onlyValidSecret, then the transfers.
Dst_withdraw(self, sender, secret, immutables) ==
  IF _validateImmutables(self, immutables) /\ onlyValidSecret(secret, immutables)
  THEN Dst_withdraw_transfers(self, sender, immutables)
  ELSE Reverted

\* withdraw
DstWithdrawCall(self, sender, secret, immutables) ==
  IF /\ onlyTaker(sender, immutables)
     /\ onlyAfter(get(immutables.timelocks, DstWithdrawal))
     /\ onlyBefore(get(immutables.timelocks, DstCancellation))
  THEN Dst_withdraw(self, sender, secret, immutables)
  ELSE Reverted

\* publicWithdraw
DstPublicWithdrawCall(self, sender, secret, immutables) ==
  IF /\ onlyAfter(get(immutables.timelocks, DstPublicWithdrawal))
     /\ onlyBefore(get(immutables.timelocks, DstCancellation))
  THEN Dst_withdraw(self, sender, secret, immutables)
  ELSE Reverted

\* Variant: cancel leaving the safety deposit in the escrow.
Dst_cancel_transfers_KeepsDeposit(self, sender, immutables) ==
  _uniTransfer(Balances, AddressLib_get(immutables.token), self,
               AddressLib_get(immutables.taker), immutables.amount)

\* The body of cancel: the two transfers.
Dst_cancel_transfers(self, sender, immutables) ==
  _ethTransfer(
    _uniTransfer(Balances, AddressLib_get(immutables.token), self,
                 AddressLib_get(immutables.taker), immutables.amount),
    self, sender, immutables.safetyDeposit)

\* cancel
DstCancelCall(self, sender, immutables) ==
  IF /\ onlyTaker(sender, immutables)
     /\ _validateImmutables(self, immutables)
     /\ onlyAfter(get(immutables.timelocks, DstCancellation))
  THEN Dst_cancel_transfers(self, sender, immutables)
  ELSE Reverted

(***************************************************************************)
(* MinimalEscrowFactory.                                                   *)
(***************************************************************************)
\* Variant: the ordering checks of the source lanes only.
_validateTimelockSequence_SrcOnly(timelocks) ==
  /\ ~(get(timelocks, SrcWithdrawal) >= get(timelocks, SrcPublicWithdrawal))
  /\ ~(get(timelocks, SrcPublicWithdrawal) >= get(timelocks, SrcCancellation))
  /\ ~(get(timelocks, SrcCancellation) >= get(timelocks, SrcPublicCancellation))
  /\ ~(get(timelocks, DstCancellation) >= get(timelocks, SrcCancellation))

\* Variant: the ordering checks without the cross-chain comparison.
_validateTimelockSequence_NoCross(timelocks) ==
  /\ ~(get(timelocks, SrcWithdrawal) >= get(timelocks, SrcPublicWithdrawal))
  /\ ~(get(timelocks, SrcPublicWithdrawal) >= get(timelocks, SrcCancellation))
  /\ ~(get(timelocks, SrcCancellation) >= get(timelocks, SrcPublicCancellation))
  /\ ~(get(timelocks, DstWithdrawal) >= get(timelocks, DstPublicWithdrawal))
  /\ ~(get(timelocks, DstPublicWithdrawal) >= get(timelocks, DstCancellation))

\* _validateTimelockSequence: TRUE when no InvalidCreationTime is raised.
_validateTimelockSequence(timelocks) ==
  LET srcWithdrawal == get(timelocks, SrcWithdrawal)
      srcPublicWithdrawal == get(timelocks, SrcPublicWithdrawal)
      srcCancellation == get(timelocks, SrcCancellation)
      srcPublicCancellation == get(timelocks, SrcPublicCancellation)
      dstWithdrawal == get(timelocks, DstWithdrawal)
      dstPublicWithdrawal == get(timelocks, DstPublicWithdrawal)
      dstCancellation == get(timelocks, DstCancellation)
  IN  /\ ~(srcWithdrawal >= srcPublicWithdrawal)
      /\ ~(srcPublicWithdrawal >= srcCancellation)
      /\ ~(srcCancellation >= srcPublicCancellation)
      /\ ~(dstWithdrawal >= dstPublicWithdrawal)
      /\ ~(dstPublicWithdrawal >= dstCancellation)
      /\ ~(dstCancellation >= srcCancellation)

\* Variant: the source address computed without the timelocks.
addressOfEscrowSrc_NoTimelocks(immutables) ==
  predictDeterministicAddress(ESCROW_SRC_IMPLEMENTATION,
                              hash([immutables EXCEPT !.timelocks = 0]), FACTORY)

addressOfEscrowSrc(immutables) ==
  predictDeterministicAddress(ESCROW_SRC_IMPLEMENTATION, hash(immutables), FACTORY)

addressOfEscrowDst(immutables) ==
  predictDeterministicAddress(ESCROW_DST_IMPLEMENTATION, hash(immutables), FACTORY)

\* Variant: the native value required is the safety deposit alone.
nativeAmount_DepositOnly(immutables) == immutables.safetyDeposit

\* The native value a creation call must carry.
nativeAmount(immutables) ==
  immutables.safetyDeposit
    + (IF AddressLib_get(immutables.token) = ZeroAddress THEN immutables.amount ELSE 0)

\* Variant: the destination creation event names the address computed from
\* the immutables as supplied.
Deploy_EventForCalldata(sender, value, calldata, immutables, implementation, role, srcCancellationTimestamp) ==
  LET salt == hashMem(immutables)
      escrow == predictDeterministicAddress(implementation, salt, FACTORY)
      token == AddressLib_get(immutables.token)
      ok == /\ escrow \notin DOMAIN code
            /\ token # ZeroAddress => (token = TokenAddr /\ tok[sender] >= immutables.amount)
      created_event ==
        IF role = "createSrcEscrow"
        THEN [emitter |-> FACTORY, name |-> "SrcEscrowCreated",
              args |-> <<escrow, calldata.hashlock, AddressLib_get(calldata.maker),
                         AddressLib_get(calldata.taker)>>]
        ELSE [emitter |-> FACTORY, name |-> "DstEscrowCreated",
              args |-> <<predictDeterministicAddress(implementation, hashMem(calldata),
                                                     FACTORY),
                         calldata.hashlock, calldata.taker>>]
  IN  /\ last' = [Tx(role, sender, escrow, 0, calldata, ZeroAddress, value, ok)
                  EXCEPT !.srcCancellationTimestamp = srcCancellationTimestamp]
      /\ IF ok
         THEN /\ events' = events \cup {created_event}
              /\ code' = [x \in DOMAIN code \cup {escrow} |->
                            IF x = escrow THEN implementation ELSE code[x]]
              /\ created' = [x \in DOMAIN created \cup {escrow} |->
                            IF x = escrow
                            THEN [immutables |-> immutables, role |-> role,
                                  srcCancellationTimestamp |-> srcCancellationTimestamp,
                                  at |-> now]
                            ELSE created[x]]
              /\ eth' = Move(WithAccount(eth, escrow), sender, escrow, value)
              /\ tok' = IF token = ZeroAddress THEN WithAccount(tok, escrow)
                        ELSE Move(WithAccount(tok, escrow), sender, escrow, immutables.amount)
         ELSE UNCHANGED <<code, created, eth, tok, events>>

\* _deployEscrow / cloneDeterministic and the token pull that follows it:
\* the effect of a creation that passed its checks.  CREATE2 fails when the
\* address already holds a clone; safeTransferFrom fails without balance.
Deploy(sender, value, calldata, immutables, implementation, role, srcCancellationTimestamp) ==
  LET salt == hashMem(immutables)
      escrow == predictDeterministicAddress(implementation, salt, FACTORY)
      token == AddressLib_get(immutables.token)
      ok == /\ escrow \notin DOMAIN code
            /\ token # ZeroAddress => (token = TokenAddr /\ tok[sender] >= immutables.amount)
      created_event ==
        IF role = "createSrcEscrow"
        THEN [emitter |-> FACTORY, name |-> "SrcEscrowCreated",
              args |-> <<escrow, calldata.hashlock, AddressLib_get(calldata.maker),
                         AddressLib_get(calldata.taker)>>]
        ELSE [emitter |-> FACTORY, name |-> "DstEscrowCreated",
              args |-> <<escrow, calldata.hashlock, calldata.taker>>]
  IN  /\ last' = [Tx(role, sender, escrow, 0, calldata, ZeroAddress, value, ok)
                  EXCEPT !.srcCancellationTimestamp = srcCancellationTimestamp]
      /\ IF ok
         THEN /\ events' = events \cup {created_event}
              /\ code' = [x \in DOMAIN code \cup {escrow} |->
                            IF x = escrow THEN implementation ELSE code[x]]
              /\ created' = [x \in DOMAIN created \cup {escrow} |->
                            IF x = escrow
                            THEN [immutables |-> immutables, role |-> role,
                                  srcCancellationTimestamp |-> srcCancellationTimestamp,
                                  at |-> now]
                            ELSE created[x]]
              /\ eth' = Move(WithAccount(eth, escrow), sender, escrow, value)
              /\ tok' = IF token = ZeroAddress THEN WithAccount(tok, escrow)
                        ELSE Move(WithAccount(tok, escrow), sender, escrow, immutables.amount)
         ELSE UNCHANGED <<code, created, eth, tok, events>>

Rejected(op, sender, value, immutables, srcCancellationTimestamp) ==
  /\ last' = [Tx(op, sender, ZeroAddress, 0, immutables, ZeroAddress, value, FALSE)
                EXCEPT !.srcCancellationTimestamp = srcCancellationTimestamp]
  /\ UNCHANGED <<code, created, eth, tok, events>>

\* Variant: createSrcEscrow deploying with the timelocks as supplied.
createSrcEscrow_AsSupplied(sender, value, immutables) ==
  /\ Cardinality(DOMAIN code) < MaxEscrows
  /\ eth[sender] >= value
  /\ UNCHANGED <<now, revealed, swap, htlc>>
  /\ IF value # nativeAmount(immutables)
     THEN Rejected("createSrcEscrow", sender, value, immutables, 0)
     ELSE Deploy(sender, value, immutables, immutables,
                 ESCROW_SRC_IMPLEMENTATION, "createSrcEscrow", 0)

createSrcEscrow(sender, value, immutables) ==
  /\ Cardinality(DOMAIN code) < MaxEscrows
  /\ eth[sender] >= value
  /\ UNCHANGED <<now, revealed, swap, htlc>>
  /\ IF value # nativeAmount(immutables)
     THEN Rejected("createSrcEscrow", sender, value, immutables, 0)
     ELSE Deploy(sender, value, immutables,
                 [immutables EXCEPT !.timelocks = setDeployedAt(@, now)],
                 ESCROW_SRC_IMPLEMENTATION, "createSrcEscrow", 0)

\* Variant: createDstEscrow without the comparison with the source
\* cancellation deadline.
createDstEscrow_NoDeadline(sender, value, dstImmutables, srcCancellationTimestamp) ==
  LET immutables == [dstImmutables EXCEPT !.timelocks = setDeployedAt(@, now)]
  IN  /\ Cardinality(DOMAIN code) < MaxEscrows
      /\ eth[sender] >= value
      /\ UNCHANGED <<now, revealed, swap, htlc>>
      /\ IF \/ value # nativeAmount(dstImmutables)
            \/ ~_validateTimelockSequence(immutables.timelocks)
         THEN Rejected("createDstEscrow", sender, value, dstImmutables,
                       srcCancellationTimestamp)
         ELSE Deploy(sender, value, dstImmutables, immutables,
                     ESCROW_DST_IMPLEMENTATION,
                     "createDstEscrow", srcCancellationTimestamp)

createDstEscrow(sender, value, dstImmutables, srcCancellationTimestamp) ==
  LET immutables == [dstImmutables EXCEPT !.timelocks = setDeployedAt(@, now)]
  IN  /\ Cardinality(DOMAIN code) < MaxEscrows
      /\ eth[sender] >= value
      /\ UNCHANGED <<now, revealed, swap, htlc>>
      /\ IF \/ value # nativeAmount(dstImmutables)
            \/ get(immutables.timelocks, DstCancellation) > srcCancellationTimestamp
            \/ ~_validateTimelockSequence(immutables.timelocks)
         THEN Rejected("createDstEscrow", sender, value, dstImmutables,
                       srcCancellationTimestamp)
         ELSE Deploy(sender, value, dstImmutables, immutables,
                     ESCROW_DST_IMPLEMENTATION,
                     "createDstEscrow", srcCancellationTimestamp)

(***************************************************************************)
(* Transactions sent to a deployed escrow.  A transaction that reverts     *)
(* changes nothing but the record of the attempt.                          *)
(***************************************************************************)
SrcEscrows == { e \in DOMAIN code : code[e] = ESCROW_SRC_IMPLEMENTATION }

DstEscrows == { e \in DOMAIN code : code[e] = ESCROW_DST_IMPLEMENTATION }

WithdrawalOps == {"withdraw", "withdrawTo", "publicWithdraw", "claim", "publicClaim"}

CancelOps == {"cancel"}

\* Variant: the escrow's event is emitted whether or not the call went
\* through.
EscrowTx_AlwaysEmits(op, self, sender, secret, target, immutables, result) ==
  /\ last' = Tx(op, sender, self, secret, immutables, target, 0, result.ok)
  /\ eth' = result.eth
  /\ tok' = result.tok
  /\ events' = IF op \in WithdrawalOps
                THEN events \cup {[emitter |-> self, name |-> "EscrowWithdrawal",
                                    args |-> <<secret>>]}
                ELSE events \cup {[emitter |-> self, name |-> "EscrowCancelled",
                                    args |-> <<>>]}
  /\ revealed' = IF result.ok /\ op \in WithdrawalOps
                 THEN revealed \cup {secret} ELSE revealed
  /\ UNCHANGED <<now, code, created, swap, htlc>>

EscrowTx(op, self, sender, secret, target, immutables, result) ==
  /\ last' = Tx(op, sender, self, secret, immutables, target, 0, result.ok)
  /\ eth' = result.eth
  /\ tok' = result.tok
  /\ events' = IF ~result.ok THEN events
                ELSE IF op \in WithdrawalOps
                THEN events \cup {[emitter |-> self, name |-> "EscrowWithdrawal",
                                    args |-> <<secret>>]}
                ELSE events \cup {[emitter |-> self, name |-> "EscrowCancelled",
                                    args |-> <<>>]}
  /\ revealed' = IF result.ok /\ op \in WithdrawalOps
                 THEN revealed \cup {secret} ELSE revealed
  /\ UNCHANGED <<now, code, created, swap, htlc>>

SrcWithdraw ==
  \E self \in SrcEscrows, sender \in Users, secret \in Secrets :
    \E immutables \in PresentedImmutables(created[self].immutables, sender) :
      EscrowTx("withdraw", self, sender, secret, sender, immutables,
               SrcWithdrawCall(self, sender, secret, sender, immutables))

SrcWithdrawTo ==
  \E self \in SrcEscrows, sender \in Users, secret \in Secrets, target \in {Other} :
    \E immutables \in PresentedImmutables(created[self].immutables, sender) :
      EscrowTx("withdrawTo", self, sender, secret, target, immutables,
               SrcWithdrawCall(self, sender, secret, target, immutables))

SrcCancel ==
  \E self \in SrcEscrows, sender \in Users :
    \E immutables \in PresentedImmutables(created[self].immutables, sender) :
      EscrowTx("cancel", self, sender, 0, ZeroAddress, immutables,
               SrcCancelCall(self, sender, immutables))

DstWithdraw ==
  \E self \in DstEscrows, sender \in Users, secret \in Secrets :
    \E immutables \in PresentedImmutables(created[self].immutables, sender) :
      EscrowTx("withdraw", self, sender, secret, ZeroAddress, immutables,
               DstWithdrawCall(self, sender, secret, immutables))

DstPublicWithdraw ==
  \E self \in DstEscrows, sender \in Users, secret \in Secrets :
    \E immutables \in PresentedImmutables(created[self].immutables, sender) :
      EscrowTx("publicWithdraw", self, sender, secret, ZeroAddress, immutables,
               DstPublicWithdrawCall(self, sender, secret, immutables))

\* claim: alias of withdraw
DstClaim ==
  \E self \in DstEscrows, sender \in Users, secret \in Secrets :
    \E immutables \in PresentedImmutables(created[self].immutables, sender) :
      EscrowTx("claim", self, sender, secret, ZeroAddress, immutables,
               DstWithdrawCall(self, sender, secret, immutables))

\* publicClaim: alias of publicWithdraw
DstPublicClaim ==
  \E self \in DstEscrows, sender \in Users, secret \in Secrets :
    \E immutables \in PresentedImmutables(created[self].immutables, sender) :
      EscrowTx("publicClaim", self, sender, secret, ZeroAddress, immutables,
               DstPublicWithdrawCall(self, sender, secret, immutables))

DstCancel ==
  \E self \in DstEscrows, sender \in Users :
    \E immutables \in PresentedImmutables(created[self].immutables, sender) :
      EscrowTx("cancel", self, sender, 0, ZeroAddress, immutables,
               DstCancelCall(self, sender, immutables))

CreateSrc ==
  /\ now <= MaxDeployTime
  /\ \E immutables \in CreationImmutables, value \in {Deposit, Deposit + Principal} :
    createSrcEscrow(Maker, value, immutables)

CreateDst ==
  /\ now <= MaxDeployTime
  /\ \E dstImmutables \in DstCreationImmutables, value \in {Deposit, Deposit + Principal},
     srcCancellationTimestamp \in {now + 2, now + 3, now + 4} :
    createDstEscrow(Taker, value, dstImmutables, srcCancellationTimestamp)

Tick ==
  /\ now < MaxTime
  /\ now' = now + 1
  /\ UNCHANGED <<code, created, eth, tok, last, events, revealed, swap, htlc>>

(***************************************************************************)
(* Bitcoin HTLC (BitcoinHTLC) and the coordinator (SwapCoordinator,        *)
(* CrossChainSwapTester).                                                  *)
(***************************************************************************)
UserKey == 11
ResolverKey == 12
BtcKeys == {UserKey, ResolverKey}
EthSigner == Maker
SwapOrderHash == 2
HtlcTimeout == 3
ConfigTimeouts == <<2, 3, 4, 5, 1, 2, 3>>

NoSwap ==
  [direction |-> "none", secret |-> 0, secretHash |-> EmptyBuffer, type |-> "none",
   address |-> ZeroAddress, immutables |-> NoImmutables]

NoHtlc ==
  [state |-> "none", direction |-> "none", script |-> <<>>, locktime |-> 0,
   redeemer |-> "none", refunder |-> "none", secretHash |-> EmptyBuffer,
   preimage |-> 0, spender |-> 0]

\* generateSecret: the hash handed out with a secret.
generateSecret(secret) == [secret |-> secret, hash |-> SHA256(secret)]

\* Variant: verifySecret accepting every hash of the right length.
verifySecret_LengthOnly(secret, h) == Len(h) = HashLen

\* verifySecret
verifySecret(secret, h) == SHA256(secret) = h

\* bitcoin.opcodes
OP_IF == 99
OP_ELSE == 103
OP_ENDIF == 104
OP_DROP == 117
OP_EQUALVERIFY == 136
OP_SHA256 == 168
OP_CHECKSIG == 172
OP_CHECKSIGVERIFY == 173
OP_CHECKLOCKTIMEVERIFY == 177
PUSHDATA == 0 - 1

\* An element of a script: an opcode, or the push of a data buffer.
Op(opcode) == [op |-> opcode, data |-> EmptyBuffer]

Push(buffer) == [op |-> PUSHDATA, data |-> buffer]

\* bitcoin.script.number.encode of a non-negative number: little-endian
\* bytes, with a zero byte appended when the top bit would be set.
RECURSIVE numberEncode(_)
numberEncode(n) ==
  IF n = 0 THEN EmptyBuffer
  ELSE IF n < 128 THEN <<n>>
  ELSE IF n < 256 THEN <<n, 0>>
  ELSE <<n % 256>> \o numberEncode(n \div 256)

\* The number a script reads from a buffer (CScriptNum), non-negative case.
RECURSIVE numberDecode(_)
numberDecode(b) ==
  IF b = EmptyBuffer THEN 0 ELSE b[1] + 256 * numberDecode(Tail(b))

\* ECPair.publicKey of the key pair `key`, and a signature made with it.
publicKey(key) == <<key>>

sign(key) == <<key, key>>

checkSig(sig, pubKey) == Len(pubKey) = 1 /\ sig = sign(pubKey[1])

CastToBool(b) == \E i \in 1..Len(b) : b[i] # 0

\* Variant: the two public keys in each other's branch.
createHTLCScript_KeysSwapped(redeemerPubKey, refunderPubKey, secretHash, locktime) ==
  IF Len(secretHash) # HashLen
  THEN [threw |-> TRUE, message |-> "Secret hash must be 32 bytes", script |-> <<>>]
  ELSE [threw |-> FALSE, message |-> "",
        script |-> << Op(OP_IF), Push(refunderPubKey), Op(OP_CHECKSIGVERIFY),
                      Op(OP_SHA256), Push(secretHash), Op(OP_EQUALVERIFY),
                      Op(OP_ELSE), Push(numberEncode(locktime)),
                      Op(OP_CHECKLOCKTIMEVERIFY), Op(OP_DROP),
                      Push(redeemerPubKey), Op(OP_CHECKSIGVERIFY), Op(OP_ENDIF) >>]

\* Variant: no check of the length of secretHash.
createHTLCScript_NoLengthCheck(redeemerPubKey, refunderPubKey, secretHash, locktime) ==
  [threw |-> FALSE, message |-> "",
   script |-> << Op(OP_IF), Push(redeemerPubKey), Op(OP_CHECKSIGVERIFY),
                 Op(OP_SHA256), Push(secretHash), Op(OP_EQUALVERIFY),
                 Op(OP_ELSE), Push(numberEncode(locktime)),
                 Op(OP_CHECKLOCKTIMEVERIFY), Op(OP_DROP),
                 Push(refunderPubKey), Op(OP_CHECKSIGVERIFY), Op(OP_ENDIF) >>]

\* createHTLCScript: the elements handed to bitcoin.script.compile, or the
\* error thrown.
createHTLCScript(redeemerPubKey, refunderPubKey, secretHash, locktime) ==
  IF Len(secretHash) # HashLen
  THEN [threw |-> TRUE, message |-> "Secret hash must be 32 bytes", script |-> <<>>]
  ELSE [threw |-> FALSE, message |-> "",
        script |-> << Op(OP_IF),
                        Push(redeemerPubKey),
                        Op(OP_CHECKSIGVERIFY),
                        Op(OP_SHA256),
                        Push(secretHash),
                        Op(OP_EQUALVERIFY),
                      Op(OP_ELSE),
                        Push(numberEncode(locktime)),
                        Op(OP_CHECKLOCKTIMEVERIFY),
                        Op(OP_DROP),
                        Push(refunderPubKey),
                        Op(OP_CHECKSIGVERIFY),
                      Op(OP_ENDIF) >>]

\* The Bitcoin script interpreter on the opcodes the HTLC uses.  `stack` has
\* its top at the end, `vfExec` is the stack of open conditionals, nLockTime
\* is the lock time of the spending transaction.
RECURSIVE EvalScript(_, _, _, _, _)
EvalScript(script, pc, stack, vfExec, nLockTime) ==
  IF pc > Len(script) THEN [ok |-> vfExec = <<>>, stack |-> stack]
  ELSE
    LET el == script[pc]
        fExec == \A i \in 1..Len(vfExec) : vfExec[i]
        n == Len(stack)
        fail == [ok |-> FALSE, stack |-> stack]
        next(st, vf) == EvalScript(script, pc + 1, st, vf, nLockTime)
        pop(k) == SubSeq(stack, 1, n - k)
    IN  IF el.op = OP_IF
        THEN IF ~fExec THEN next(stack, Append(vfExec, FALSE))
             ELSE IF n < 1 THEN fail
             ELSE next(pop(1), Append(vfExec, CastToBool(stack[n])))
        ELSE IF el.op = OP_ELSE
        THEN IF vfExec = <<>> THEN fail
             ELSE next(stack, [vfExec EXCEPT ![Len(vfExec)] = ~@])
        ELSE IF el.op = OP_ENDIF
        THEN IF vfExec = <<>> THEN fail
             ELSE next(stack, SubSeq(vfExec, 1, Len(vfExec) - 1))
        ELSE IF ~fExec THEN next(stack, vfExec)
        ELSE IF el.op = PUSHDATA THEN next(Append(stack, el.data), vfExec)
        ELSE IF el.op = OP_CHECKSIGVERIFY
        THEN IF n < 2 THEN fail
             ELSE IF ~checkSig(stack[n - 1], stack[n]) THEN fail
             ELSE next(pop(2), vfExec)
        ELSE IF el.op = OP_CHECKSIG
        THEN IF n < 2 THEN fail
             ELSE next(Append(pop(2), IF checkSig(stack[n - 1], stack[n])
                                      THEN numberEncode(1) ELSE EmptyBuffer),
                       vfExec)
        ELSE IF el.op = OP_SHA256
        THEN IF n < 1 THEN fail
             ELSE next(Append(pop(1), sha256(stack[n])), vfExec)
        ELSE IF el.op = OP_EQUALVERIFY
        THEN IF n < 2 THEN fail
             ELSE IF stack[n - 1] # stack[n] THEN fail
             ELSE next(pop(2), vfExec)
        ELSE IF el.op = OP_CHECKLOCKTIMEVERIFY
        THEN IF n < 1 THEN fail
             ELSE IF nLockTime < numberDecode(stack[n]) THEN fail
             ELSE next(stack, vfExec)
        ELSE IF el.op = OP_DROP
        THEN IF n < 1 THEN fail ELSE next(pop(1), vfExec)
        ELSE fail

\* A spend of a P2WSH output: the witness items are the initial stack; the
\* script must run through and leave exactly one item, a true one.
VerifyWitness(script, witness, nLockTime) ==
  LET r == EvalScript(script, 1, witness, <<>>, nLockTime)
  IN  r.ok /\ Len(r.stack) = 1 /\ CastToBool(r.stack[1])

\* The witnesses (bottom item first) by which the holder of key sigKey can
\* try the secret branch with `preimage`, and the timeout branch.
RedeemWitnesses(sigKey, preimage) ==
  { << <<preimage>>, sign(sigKey), numberEncode(1) >>,
    << numberEncode(1), <<preimage>>, sign(sigKey), numberEncode(1) >> }

RefundWitnesses(sigKey) ==
  { << sign(sigKey), numberEncode(0) >>,
    << numberEncode(1), sign(sigKey), numberEncode(0) >> }

\* createRedeemWitness: the stack items of redeem.input (bottom first)
\* followed by the witness script, as bitcoin.payments.p2wsh builds it.
createRedeemWitness(signature, redeemerPubKey, secret, redeemScript) ==
  [stack |-> <<signature, redeemerPubKey, secret, numberEncode(1)>>,
   script |-> redeemScript]

\* createRefundWitness
createRefundWitness(signature, refunderPubKey, redeemScript) ==
  [stack |-> <<signature, refunderPubKey, numberEncode(0)>>,
   script |-> redeemScript]

\* The OP_IF branch of the script:
\*   <redeemerPubKey> OP_CHECKSIGVERIFY OP_SHA256 <secretHash> OP_EQUALVERIFY
RedeemPath(script, sigKey, preimage) ==
  \E witness \in RedeemWitnesses(sigKey, preimage) :
    VerifyWitness(script, witness, 0)

\* The OP_ELSE branch of the script:
\*   <locktime> OP_CHECKLOCKTIMEVERIFY OP_DROP <refunderPubKey> OP_CHECKSIGVERIFY
RefundPath(script, sigKey, txLocktime) ==
  \E witness \in RefundWitnesses(sigKey) :
    VerifyWitness(script, witness, txLocktime)

(***************************************************************************)
(* BitcoinSDKHTLC and BitcoinSDKCoordinator (bitcoin-sdk-js).              *)
(***************************************************************************)
\* bitcoin.script.generateTimeLockScript(locktime): the spending transaction
\* must have reached locktime.
generateTimeLockScript(locktime) ==
  << Push(numberEncode(locktime)), Op(OP_CHECKLOCKTIMEVERIFY), Op(OP_DROP) >>

\* bitcoin.script.generateHashLockScript(secretHash): the top stack item
\* must hash to secretHash.
generateHashLockScript(secretHash) ==
  << Op(OP_SHA256), Push(secretHash), Op(OP_EQUALVERIFY) >>

\* BitcoinSDKHTLC.createHTLCScript
BitcoinSDKHTLC_createHTLCScript(pubkey1, pubkey2, secretHash, locktime) ==
  << Op(OP_IF) >>
    \o generateTimeLockScript(locktime)
    \o << Push(pubkey1) >>
    \o << Op(OP_ELSE) >>
    \o generateHashLockScript(secretHash)
    \o << Push(pubkey2) >>
    \o << Op(OP_ENDIF) >>
    \o << Op(OP_CHECKSIG) >>

\* BitcoinSDKHTLC.createRedeemTransaction: the items of the script sig below
\* the redeem script (bottom first), for executeIf true and false.
BitcoinSDKHTLC_scriptSig(privateKey, secretHex, executeIf) ==
  IF executeIf
  THEN << sign(privateKey), secretHex, numberEncode(1) >>
  ELSE << sign(privateKey), EmptyBuffer >>

\* A spend of a script-hash output: the script runs through and leaves a
\* true item on top.
VerifyScriptSig(script, stack, nLockTime) ==
  LET r == EvalScript(script, 1, stack, <<>>, nLockTime)
  IN  r.ok /\ Len(r.stack) >= 1 /\ CastToBool(r.stack[Len(r.stack)])

\* A field a swap configuration does not have.
Undefined == 0

\* The private keys bitcoin.wallet.generateKeyPair can return: fresh ones.
GeneratedKeys == {13, 14}

\* BitcoinSDKCoordinator.setupBTCtoETH; `generated` is the key pair that
\* generateKeyPair returned.
BitcoinSDKCoordinator_setupBTCtoETH(userPrivateKey, resolverPublicKey, secretHash, timeoutHours, generated) ==
  LET locktime == now + timeoutHours
  IN  [direction |-> "BTC->ETH",
       htlcScript |-> BitcoinSDKHTLC_createHTLCScript(
                        resolverPublicKey, publicKey(generated), secretHash, locktime),
       locktime |-> locktime, redeemer |-> "resolver", refunder |-> "user",
       userPrivateKey |-> userPrivateKey, userPublicKey |-> EmptyBuffer,
       resolverPrivateKey |-> Undefined, resolverPublicKey |-> resolverPublicKey,
       secretHash |-> secretHash]

\* BitcoinSDKCoordinator.setupETHtoBTC
BitcoinSDKCoordinator_setupETHtoBTC(userPublicKey, resolverPrivateKey, secretHash, timeoutHours, generated) ==
  LET locktime == now + timeoutHours
  IN  [direction |-> "ETH->BTC",
       htlcScript |-> BitcoinSDKHTLC_createHTLCScript(
                        userPublicKey, publicKey(generated), secretHash, locktime),
       locktime |-> locktime, redeemer |-> "user", refunder |-> "resolver",
       userPrivateKey |-> Undefined, userPublicKey |-> userPublicKey,
       resolverPrivateKey |-> resolverPrivateKey, resolverPublicKey |-> EmptyBuffer,
       secretHash |-> secretHash]

\* BitcoinSDKCoordinator.createRedeemTransaction / createRefundTransaction:
\* the private key taken from the swap configuration.
BitcoinSDKCoordinator_redeemKey(swapConfig) ==
  IF swapConfig.redeemer = "resolver" THEN swapConfig.resolverPrivateKey
  ELSE swapConfig.userPrivateKey

BitcoinSDKCoordinator_refundKey(swapConfig) ==
  IF swapConfig.refunder = "user" THEN swapConfig.userPrivateKey
  ELSE swapConfig.resolverPrivateKey

\* What a setup call yields when createHTLCScript threw.
NoSwapConfig ==
  [threw |-> TRUE, direction |-> "none", script |-> <<>>, locktime |-> 0,
   redeemer |-> "none", refunder |-> "none"]

\* Variant: setupBTCtoETH building the script of the other direction.
setupBTCtoETH_Mirrored(userKey, resolverPubKey, secretHash, timeoutHours) ==
  LET locktime == now + timeoutHours
      r == createHTLCScript(publicKey(userKey), resolverPubKey, secretHash, locktime)
  IN  IF r.threw THEN NoSwapConfig
      ELSE [threw |-> FALSE, direction |-> "BTC->ETH", script |-> r.script,
            locktime |-> locktime, redeemer |-> "resolver", refunder |-> "user"]

\* setupBTCtoETH: resolver redeems, user refunds.
setupBTCtoETH(userKey, resolverPubKey, secretHash, timeoutHours) ==
  LET locktime == now + timeoutHours
      r == createHTLCScript(resolverPubKey, publicKey(userKey), secretHash, locktime)
  IN  IF r.threw THEN NoSwapConfig
      ELSE [threw |-> FALSE, direction |-> "BTC->ETH", script |-> r.script,
            locktime |-> locktime, redeemer |-> "resolver", refunder |-> "user"]

\* setupETHtoBTC: user redeems, resolver refunds.
setupETHtoBTC(userPubKey, resolverKey, secretHash, timeoutHours) ==
  LET locktime == now + timeoutHours
      r == createHTLCScript(userPubKey, publicKey(resolverKey), secretHash, locktime)
  IN  IF r.threw THEN NoSwapConfig
      ELSE [threw |-> FALSE, direction |-> "ETH->BTC", script |-> r.script,
            locktime |-> locktime, redeemer |-> "user", refunder |-> "resolver"]

\* The HTLC output a swap configuration describes, not yet funded.
HtlcOutput(btcSwapConfig, secretHash) ==
  [state |-> "unfunded", direction |-> btcSwapConfig.direction,
   script |-> btcSwapConfig.script, locktime |-> btcSwapConfig.locktime,
   redeemer |-> btcSwapConfig.redeemer, refunder |-> btcSwapConfig.refunder,
   secretHash |-> secretHash, preimage |-> 0, spender |-> 0]

\* setupEthereumEscrow: the immutables of the EVM leg and the address the
\* coordinator monitors.
setupEthereumEscrow(secretHash, type) ==
  LET immutables ==
        [orderHash |-> SwapOrderHash, hashlock |-> secretHash,
         maker |-> EthSigner[1], taker |-> EthSigner[1], token |-> NativeToken,
         amount |-> Principal, safetyDeposit |-> Deposit,
         timelocks |-> packTimelocks(ConfigTimeouts)]
  IN  [address |-> IF type = "source" THEN addressOfEscrowSrc(immutables)
                   ELSE addressOfEscrowDst(immutables),
       immutables |-> immutables]

setupBTCtoETHSwap ==
  /\ now <= MaxDeployTime
  /\ swap.direction = "none"
  /\ \E s \in Secrets :
       LET g == generateSecret(s)
           btcSwapConfig == setupBTCtoETH(UserKey, publicKey(ResolverKey), g.hash,
                                          HtlcTimeout)
           ethSwapConfig == setupEthereumEscrow(g.hash, "destination")
       IN  /\ ~btcSwapConfig.threw
           /\ htlc' = HtlcOutput(btcSwapConfig, g.hash)
           /\ swap' = [direction |-> "BTC->ETH", secret |-> g.secret,
                       secretHash |-> g.hash, type |-> "destination",
                       address |-> ethSwapConfig.address,
                       immutables |-> ethSwapConfig.immutables]
  /\ UNCHANGED <<now, code, created, eth, tok, last, events, revealed>>

setupETHtoBTCSwap ==
  /\ now <= MaxDeployTime
  /\ swap.direction = "none"
  /\ \E s \in Secrets :
       LET g == generateSecret(s)
           btcSwapConfig == setupETHtoBTC(publicKey(UserKey), ResolverKey, g.hash,
                                          HtlcTimeout)
           ethSwapConfig == setupEthereumEscrow(g.hash, "source")
       IN  /\ ~btcSwapConfig.threw
           /\ htlc' = HtlcOutput(btcSwapConfig, g.hash)
           /\ swap' = [direction |-> "ETH->BTC", secret |-> g.secret,
                       secretHash |-> g.hash, type |-> "source",
                       address |-> ethSwapConfig.address,
                       immutables |-> ethSwapConfig.immutables]
  /\ UNCHANGED <<now, code, created, eth, tok, last, events, revealed>>

\* executeSwapStep('fund-btc'): the HTLC address receives its output.
FundBtc ==
  /\ htlc.state = "unfunded"
  /\ htlc' = [htlc EXCEPT !.state = "funded"]
  /\ UNCHANGED <<now, code, created, eth, tok, last, events, revealed, swap>>

\* executeSwapStep('fund-eth')
FundEth ==
  /\ now <= MaxDeployTime
  /\ swap.direction # "none"
  /\ createSrcEscrow(EthSigner,
                     swap.immutables.amount + swap.immutables.safetyDeposit,
                     swap.immutables)

\* executeSwapStep('reveal-secret')
RevealSecret ==
  /\ swap.direction # "none"
  /\ swap.secret \notin revealed
  /\ revealed' = revealed \cup {swap.secret}
  /\ UNCHANGED <<now, code, created, eth, tok, last, events, swap, htlc>>

\* The secrets the holder of a Bitcoin key can put in a witness.
Known(key) ==
  revealed \cup (IF key = UserKey /\ swap.direction # "none" THEN {swap.secret} ELSE {})

\* A spend of the HTLC output through the secret branch.
BtcRedeem ==
  /\ htlc.state = "funded"
  /\ \E key \in BtcKeys :
       \E preimage \in Known(key) :
         /\ RedeemPath(htlc.script, key, preimage)
         /\ htlc' = [htlc EXCEPT !.state = "redeemed", !.preimage = preimage,
                                 !.spender = key]
         /\ revealed' = revealed \cup {preimage}
  /\ UNCHANGED <<now, code, created, eth, tok, last, events, swap>>

\* A spend of the HTLC output through the timeout branch; the transaction
\* carries nLockTime = locktime and is mined once that time is reached.
BtcRefund ==
  /\ htlc.state = "funded"
  /\ now >= htlc.locktime
  /\ \E key \in BtcKeys :
       /\ RefundPath(htlc.script, key, htlc.locktime)
       /\ htlc' = [htlc EXCEPT !.state = "refunded", !.spender = key]
  /\ UNCHANGED <<now, code, created, eth, tok, last, events, revealed, swap>>

(***************************************************************************)
(* Specification.                                                          *)
(***************************************************************************)
Init ==
  /\ now = 0
  /\ code = <<>>
  /\ created = <<>>
  /\ eth = [a \in Users |-> InitialEth]
  /\ tok = [a \in Users |-> InitialTok]
  /\ last = Tx("none", ZeroAddress, ZeroAddress, 0, NoImmutables, ZeroAddress, 0, FALSE)
  /\ events = {}
  /\ revealed = {}
  /\ swap = NoSwap
  /\ htlc = NoHtlc

\* The escrow factory and its escrows under arbitrary callers.
Next ==
  \/ Tick
  \/ CreateSrc
  \/ CreateDst
  \/ SrcWithdraw
  \/ SrcWithdrawTo
  \/ SrcCancel
  \/ DstWithdraw
  \/ DstPublicWithdraw
  \/ DstClaim
  \/ DstPublicClaim
  \/ DstCancel

Spec == Init /\ [][Next]_vars

\* A swap driven by the coordinator: the Bitcoin HTLC and the EVM leg it
\* funds.
NextSwap ==
  \/ Tick
  \/ setupBTCtoETHSwap
  \/ setupETHtoBTCSwap
  \/ FundBtc
  \/ FundEth
  \/ RevealSecret
  \/ BtcRedeem
  \/ BtcRefund
  \/ SrcWithdraw
  \/ SrcWithdrawTo
  \/ SrcCancel

SpecSwap == Init /\ [][NextSwap]_vars

(***************************************************************************)
(* The library functions called on their own: `last` holds the call, its   *)
(* arguments and what it returned.                                         *)
(***************************************************************************)
Call(op, args, result) == [op |-> op, args |-> args, result |-> result]

KeyInputs == { publicKey(key) : key \in BtcKeys }

\* Hashes of the right length, and buffers of 0, 12, HashLen - 1 and
\* HashLen + 1 bytes.
HashInputs ==
  { SHA256(s) : s \in Secrets }
    \cup { Keccak256(1) }
    \cup { [i \in 1..n |-> 1] : n \in {0, 12, HashLen - 1, HashLen + 1} }

LocktimeInputs == 0..MaxTime \cup {127, 128, 300}

TimeoutInputs == {1, HtlcTimeout}

\* Stage offsets: every lane empty or full, and two increasing sets.
OffsetInputs ==
  { <<a, b, c, d, e, f, g>> :
      a \in {0, LaneMod - 1}, b \in {0, LaneMod - 1}, c \in {0, LaneMod - 1},
      d \in {0, LaneMod - 1}, e \in {0, LaneMod - 1}, f \in {0, LaneMod - 1},
      g \in {0, LaneMod - 1} }
    \cup { <<2, 3, 4, 5, 1, 2, 3>>, <<1, 2, 3, 4, 5, 6, 7>> }

\* Immutables as a creation commits to them, and the copies that differ
\* from them in one field.
CommitBase ==
  [orderHash |-> OrderHash, hashlock |-> Keccak256(1), maker |-> Maker[1],
   taker |-> Taker[1], token |-> NativeToken, amount |-> Principal,
   safetyDeposit |-> Deposit,
   timelocks |-> setDeployedAt(packTimelocks(<<2, 3, 4, 5, 1, 2, 3>>), 1)]

CommitInputs ==
  { CommitBase,
    [CommitBase EXCEPT !.orderHash = OrderHash + 1],
    [CommitBase EXCEPT !.hashlock = Keccak256(2)],
    [CommitBase EXCEPT !.maker = Other[1]],
    [CommitBase EXCEPT !.taker = Other[1]],
    [CommitBase EXCEPT !.token = TokenAddr[1]],
    [CommitBase EXCEPT !.amount = Principal + 1],
    [CommitBase EXCEPT !.safetyDeposit = Deposit + 1],
    [CommitBase EXCEPT !.timelocks = packTimelocks(<<2, 3, 4, 5, 1, 2, 4>>)],
    [CommitBase EXCEPT !.timelocks = setDeployedAt(@, 2)] }

\* Each behaviour makes one call, at any time.
NoCallYet == last.op = "none"

CallCreateHTLCScript ==
  /\ NoCallYet
  /\ \E redeemerPubKey \in KeyInputs, refunderPubKey \in KeyInputs,
        secretHash \in HashInputs, locktime \in LocktimeInputs :
       last' = Call("createHTLCScript",
                    <<redeemerPubKey, refunderPubKey, secretHash, locktime>>,
                    createHTLCScript(redeemerPubKey, refunderPubKey, secretHash,
                                     locktime))
  /\ UNCHANGED <<now, code, created, eth, tok, events, revealed, swap, htlc>>

\* generateSecret: randomBytes is any secret.
CallGenerateSecret ==
  /\ NoCallYet
  /\ \E secret \in Secrets :
       last' = Call("generateSecret", <<>>, generateSecret(secret))
  /\ UNCHANGED <<now, code, created, eth, tok, events, revealed, swap, htlc>>

CallVerifySecret ==
  /\ NoCallYet
  /\ \E secret \in Secrets, h \in HashInputs :
       last' = Call("verifySecret", <<secret, h>>, verifySecret(secret, h))
  /\ UNCHANGED <<now, code, created, eth, tok, events, revealed, swap, htlc>>

CallSetupBTCtoETH ==
  /\ NoCallYet
  /\ \E userKey \in BtcKeys, resolverPubKey \in KeyInputs,
        secretHash \in HashInputs, timeoutHours \in TimeoutInputs :
       last' = Call("setupBTCtoETH",
                    <<userKey, resolverPubKey, secretHash, timeoutHours>>,
                    setupBTCtoETH(userKey, resolverPubKey, secretHash, timeoutHours))
  /\ UNCHANGED <<now, code, created, eth, tok, events, revealed, swap, htlc>>

CallSetupETHtoBTC ==
  /\ NoCallYet
  /\ \E userPubKey \in KeyInputs, resolverKey \in BtcKeys,
        secretHash \in HashInputs, timeoutHours \in TimeoutInputs :
       last' = Call("setupETHtoBTC",
                    <<userPubKey, resolverKey, secretHash, timeoutHours>>,
                    setupETHtoBTC(userPubKey, resolverKey, secretHash, timeoutHours))
  /\ UNCHANGED <<now, code, created, eth, tok, events, revealed, swap, htlc>>

\* The offsets packed off-chain, then stamped by the factory.
CallPackTimelocks ==
  /\ NoCallYet
  /\ \E timeouts \in OffsetInputs, deployedAt \in 0..MaxTime :
       last' = Call("packTimelocks", <<timeouts, deployedAt>>,
                    setDeployedAt(packTimelocks(timeouts), deployedAt))
  /\ UNCHANGED <<now, code, created, eth, tok, events, revealed, swap, htlc>>

\* The salt and the escrow addresses of two sets of immutables.
CallAddressOfEscrow ==
  /\ NoCallYet
  /\ \E a \in CommitInputs, b \in CommitInputs :
       last' = Call("addressOfEscrow", <<a, b>>,
                    [saltA |-> hashMem(a), saltB |-> hashMem(b),
                     srcA |-> addressOfEscrowSrc(a), srcB |-> addressOfEscrowSrc(b),
                     dstA |-> addressOfEscrowDst(a), dstB |-> addressOfEscrowDst(b)])
  /\ UNCHANGED <<now, code, created, eth, tok, events, revealed, swap, htlc>>

\* A script and the witness createRedeemWitness builds for it, evaluated in
\* a transaction without lock time.
CallCreateRedeemWitness ==
  /\ NoCallYet
  /\ \E signingKey \in BtcKeys, redeemerPubKey \in KeyInputs,
        refunderPubKey \in KeyInputs, secret \in Secrets, s \in Secrets,
        locktime \in 0..MaxTime :
       LET script == createHTLCScript(redeemerPubKey, refunderPubKey, SHA256(s),
                                      locktime).script
           witness == createRedeemWitness(sign(signingKey), redeemerPubKey,
                                          <<secret>>, script)
       IN  last' = Call("createRedeemWitness",
                        <<signingKey, redeemerPubKey, secret, SHA256(s)>>,
                        [witness |-> witness,
                         eval |-> EvalScript(witness.script, 1, witness.stack,
                                             <<>>, 0)])
  /\ UNCHANGED <<now, code, created, eth, tok, events, revealed, swap, htlc>>

\* A script and the witness createRefundWitness builds for it, evaluated in
\* a transaction with lock time txLocktime.
CallCreateRefundWitness ==
  /\ NoCallYet
  /\ \E signingKey \in BtcKeys, redeemerPubKey \in KeyInputs,
        refunderPubKey \in KeyInputs, s \in Secrets,
        locktime \in 0..MaxTime, txLocktime \in 0..MaxTime :
       LET script == createHTLCScript(redeemerPubKey, refunderPubKey, SHA256(s),
                                      locktime).script
           witness == createRefundWitness(sign(signingKey), refunderPubKey, script)
       IN  last' = Call("createRefundWitness",
                        <<signingKey, refunderPubKey, locktime, txLocktime>>,
                        [witness |-> witness,
                         eval |-> EvalScript(witness.script, 1, witness.stack,
                                             <<>>, txLocktime)])
  /\ UNCHANGED <<now, code, created, eth, tok, events, revealed, swap, htlc>>

CallSdkCreateHTLCScript ==
  /\ NoCallYet
  /\ \E key1 \in BtcKeys, key2 \in BtcKeys, s \in Secrets, locktime \in 0..MaxTime :
       last' = Call("BitcoinSDKHTLC.createHTLCScript",
                    <<key1, key2, s, locktime>>,
                    BitcoinSDKHTLC_createHTLCScript(publicKey(key1), publicKey(key2),
                                                    SHA256(s), locktime))
  /\ UNCHANGED <<now, code, created, eth, tok, events, revealed, swap, htlc>>

CallSdkSetupBTCtoETH ==
  /\ NoCallYet
  /\ \E userPrivateKey \in BtcKeys, resolverKey \in BtcKeys, s \in Secrets,
        timeoutHours \in TimeoutInputs, generated \in GeneratedKeys :
       last' = Call("BitcoinSDKCoordinator.setupBTCtoETH",
                    <<userPrivateKey, publicKey(resolverKey), SHA256(s), timeoutHours>>,
                    BitcoinSDKCoordinator_setupBTCtoETH(
                      userPrivateKey, publicKey(resolverKey), SHA256(s), timeoutHours,
                      generated))
  /\ UNCHANGED <<now, code, created, eth, tok, events, revealed, swap, htlc>>

CallSdkSetupETHtoBTC ==
  /\ NoCallYet
  /\ \E userKey \in BtcKeys, resolverPrivateKey \in BtcKeys, s \in Secrets,
        timeoutHours \in TimeoutInputs, generated \in GeneratedKeys :
       last' = Call("BitcoinSDKCoordinator.setupETHtoBTC",
                    <<publicKey(userKey), resolverPrivateKey, SHA256(s), timeoutHours>>,
                    BitcoinSDKCoordinator_setupETHtoBTC(
                      publicKey(userKey), resolverPrivateKey, SHA256(s), timeoutHours,
                      generated))
  /\ UNCHANGED <<now, code, created, eth, tok, events, revealed, swap, htlc>>

InitCalls ==
  /\ now = 0
  /\ code = <<>>
  /\ created = <<>>
  /\ eth = [a \in Users |-> InitialEth]
  /\ tok = [a \in Users |-> InitialTok]
  /\ last = Call("none", <<>>, <<>>)
  /\ events = {}
  /\ revealed = {}
  /\ swap = NoSwap
  /\ htlc = NoHtlc

NextCalls ==
  \/ Tick
  \/ CallCreateHTLCScript
  \/ CallGenerateSecret
  \/ CallVerifySecret
  \/ CallSetupBTCtoETH
  \/ CallSetupETHtoBTC
  \/ CallPackTimelocks
  \/ CallAddressOfEscrow
  \/ CallCreateRedeemWitness
  \/ CallCreateRefundWitness
  \/ CallSdkCreateHTLCScript
  \/ CallSdkSetupBTCtoETH
  \/ CallSdkSetupETHtoBTC

SpecCalls == InitCalls /\ [][NextCalls]_vars

(***************************************************************************)
(* Properties.                                                             *)
(***************************************************************************)
EscrowOps == WithdrawalOps \cup CancelOps

\* The step is a transaction (an attempt recorded in `last`).
TxStep == <<last, eth, tok>>' # <<last, eth, tok>>

\* The commitment of `immutables` derives the address of escrow e, the way
\* the factory derived it at deployment.
Derives(e, immutables) ==
  predictDeterministicAddress(code[e], hash(immutables), FACTORY) = e

\* The stage timestamp of escrow e's own side, from the immutables it was
\* deployed with.
StageOf(e, srcStage, dstStage) ==
  get(created[e].immutables.timelocks,
      IF code[e] = ESCROW_SRC_IMPLEMENTATION THEN srcStage ELSE dstStage)

WithdrawalOf(e) == StageOf(e, SrcWithdrawal, DstWithdrawal)

PublicWithdrawalOf(e) == StageOf(e, SrcPublicWithdrawal, DstPublicWithdrawal)

CancellationOf(e) == StageOf(e, SrcCancellation, DstCancellation)

\* Escrow e still holds everything it was funded with.
Funded(e) ==
  LET imm == created[e].immutables
  IN  IF AddressLib_get(imm.token) = ZeroAddress
      THEN eth[e] = imm.amount + imm.safetyDeposit
      ELSE eth[e] = imm.safetyDeposit /\ tok[e] = imm.amount

\* C5: for every clone deployed by createSrcEscrow or createDstEscrow, the
\* immutables self-check passes when it is given exactly the immutables
\* whose hash was the deployment salt (the predicted address is the clone's
\* own address).
C5_SelfCheckPasses ==
  \A e \in DOMAIN code : _validateImmutables(e, created[e].immutables)

\* C6: every escrow operation invoked with immutables whose commitment does
\* not derive the escrow's own address is refused, and the refused call
\* changes no balance, no deployment and emits nothing, whatever the caller,
\* the time and the secret.
C6_WrongImmutablesRefused ==
  [][ ( /\ TxStep
        /\ last'.op \in EscrowOps
        /\ ~Derives(last'.escrow, last'.immutables) )
      => ( /\ ~last'.ok
           /\ UNCHANGED <<code, created, eth, tok, events, revealed>> ) ]_vars

\* A public withdrawal with immutables of another taker, the valid secret
\* and inside the public window was attempted on a funded escrow and refused.
C6_Witness ==
  /\ last.op = "publicWithdraw"
  /\ last.escrow \in DOMAIN code
  /\ ~Derives(last.escrow, last.immutables)
  /\ onlyValidSecret(last.secret, last.immutables)
  /\ last.time >= PublicWithdrawalOf(last.escrow)
  /\ last.time < CancellationOf(last.escrow)
  /\ Funded(last.escrow)
  /\ ~last.ok

TakerOf(e) == AddressLib_get(created[e].immutables.taker)

MakerOf(e) == AddressLib_get(created[e].immutables.maker)

\* C2: withdraw by the taker, with the immutables of the deployment, on a
\* funded escrow succeeds exactly when the secret hashes to the hashlock and
\* the time is in [Withdrawal, Cancellation).
C2_WithdrawIff ==
  [][ ( /\ TxStep
        /\ last'.op = "withdraw"
        /\ last'.sender = TakerOf(last'.escrow)
        /\ last'.immutables = created[last'.escrow].immutables
        /\ Funded(last'.escrow) )
      => ( last'.ok <=>
             /\ Keccak256(last'.secret) = created[last'.escrow].immutables.hashlock
             /\ now >= WithdrawalOf(last'.escrow)
             /\ now < CancellationOf(last'.escrow) ) ]_vars

\* C4: a funded, unresolved escrow whose Cancellation time has come has a
\* cancel transition that some caller can execute.
C4_CancelEnabled ==
  \A e \in DOMAIN code :
    (Funded(e) /\ now >= CancellationOf(e))
    => \E sender \in Users :
         \E immutables \in PresentedImmutables(created[e].immutables, sender) :
           IF e \in SrcEscrows THEN SrcCancelCall(e, sender, immutables).ok
           ELSE DstCancelCall(e, sender, immutables).ok

\* The transaction tx is an attempt with the deployment immutables, the
\* right caller, the valid secret and the right time on escrow tx.escrow.
CorrectAttempt(tx) ==
  LET e == tx.escrow
      secretOk == Keccak256(tx.secret) = created[e].immutables.hashlock
  IN  /\ tx.immutables = created[e].immutables
      /\ \/ /\ tx.op \in {"withdraw", "withdrawTo", "claim"}
            /\ tx.sender = TakerOf(e)
            /\ secretOk
            /\ tx.time >= WithdrawalOf(e)
            /\ tx.time < CancellationOf(e)
         \/ /\ tx.op \in {"publicWithdraw", "publicClaim"}
            /\ secretOk
            /\ tx.time >= PublicWithdrawalOf(e)
            /\ tx.time < CancellationOf(e)
         \/ /\ tx.op = "cancel"
            /\ tx.sender = TakerOf(e)
            /\ tx.time >= CancellationOf(e)

\* C7: a rejected escrow transaction changes no balance and leaves the
\* escrow deployed, and a correct attempt on the same funded instance after
\* a rejected one succeeds.
C7_RejectedThenRetry ==
  [][ (TxStep /\ last'.op \in EscrowOps)
      => ( /\ ~last'.ok => UNCHANGED <<code, created, eth, tok, events>>
           /\ ( /\ last.op \in EscrowOps
                /\ ~last.ok
                /\ last.escrow = last'.escrow
                /\ Funded(last'.escrow)
                /\ CorrectAttempt(last') )
              => last'.ok ) ]_vars

\* C10: a successful withdrawal moves exactly `amount` of the principal to
\* the maker (destination escrow) or the taker (source escrow) and exactly
\* `safetyDeposit` of native asset to the caller; and the taker's withdrawal
\* between Withdrawal and PublicWithdrawal with the valid secret on a funded
\* destination escrow is such a successful withdrawal.
C10_WithdrawalPays ==
  [][ (TxStep /\ last'.op \in WithdrawalOps)
      => LET e == last'.escrow
             imm == created[e].immutables
             native == AddressLib_get(imm.token) = ZeroAddress
             to == IF e \in DstEscrows THEN MakerOf(e) ELSE TakerOf(e)
             tokDelta(a) == (IF ~native /\ a = to THEN imm.amount ELSE 0)
                            - (IF ~native /\ a = e THEN imm.amount ELSE 0)
             ethDelta(a) == (IF native /\ a = to THEN imm.amount ELSE 0)
                            + (IF a = last'.sender THEN imm.safetyDeposit ELSE 0)
                            - (IF a = e
                               THEN imm.safetyDeposit + (IF native THEN imm.amount ELSE 0)
                               ELSE 0)
             paid == \A a \in DOMAIN eth :
                       /\ tok'[a] = tok[a] + tokDelta(a)
                       /\ eth'[a] = eth[a] + ethDelta(a)
         IN  /\ last'.ok => paid
             /\ ( /\ e \in DstEscrows
                  /\ last'.op = "withdraw"
                  /\ Funded(e)
                  /\ CorrectAttempt(last')
                  /\ now < PublicWithdrawalOf(e) )
                => (last'.ok /\ paid) ]_vars

(***************************************************************************)
(* Properties of a coordinated swap (SpecSwap).                            *)
(***************************************************************************)
\* The EVM legs carrying the hashlock of the Bitcoin HTLC.
Legs == { e \in DOMAIN code : created[e].immutables.hashlock = htlc.secretHash }

Withdrawn(e) == \E ev \in events : ev.emitter = e /\ ev.name = "EscrowWithdrawal"

Cancelled(e) == \E ev \in events : ev.emitter = e /\ ev.name = "EscrowCancelled"

\* No transaction can resolve source escrow e any more: its last stage has
\* begun and no caller, secret or presented immutables passes the guards.
Stuck(e) ==
  /\ now >= get(created[e].immutables.timelocks, SrcPublicCancellation)
  /\ \A sender \in Users :
       \A immutables \in PresentedImmutables(created[e].immutables, sender) :
         /\ ~SrcCancelCall(e, sender, immutables).ok
         /\ \A secret \in Secrets, target \in Users :
              ~SrcWithdrawCall(e, sender, secret, target, immutables).ok

\* C3: when both legs of a swap have reached their final outcome, either
\* both were withdrawn or both were refunded.
C3_Atomic ==
  \A e \in Legs :
    ( /\ htlc.state \in {"redeemed", "refunded"}
      /\ Withdrawn(e) \/ Cancelled(e) \/ Stuck(e) )
    => \/ htlc.state = "redeemed" /\ Withdrawn(e)
       \/ htlc.state = "refunded" /\ Cancelled(e)

\* C8: for the hashlock the coordinator installs on both legs, the secrets
\* the Bitcoin redeem path accepts are the secrets the EVM escrow's secret
\* check accepts.
C8_SecretUnlocksBothLegs ==
  \A e \in Legs :
    htlc.state # "none"
    => \A s \in Secrets :
         (\E key \in BtcKeys : RedeemPath(htlc.script, key, s))
           <=> onlyValidSecret(s, created[e].immutables)

(***************************************************************************)
(* Cancellation and public operations.                                     *)
(***************************************************************************)
\* C11: on a funded escrow whose Cancellation time has come, the transfers
\* that cancel performs for its caller, when they go through, move the
\* principal `amount` from the escrow to the maker and the safety deposit
\* from the escrow to the caller.
C11_CancelPaysMaker ==
  \A e \in DOMAIN code :
    (Funded(e) /\ now >= CancellationOf(e))
    => LET imm == created[e].immutables
           caller == TakerOf(e)
           native == AddressLib_get(imm.token) = ZeroAddress
           r == IF e \in SrcEscrows THEN Src_cancel_transfers(e, caller, imm)
                ELSE Dst_cancel_transfers(e, caller, imm)
           tokDelta(a) == (IF ~native /\ a = MakerOf(e) THEN imm.amount ELSE 0)
                          - (IF ~native /\ a = e THEN imm.amount ELSE 0)
           ethDelta(a) == (IF native /\ a = MakerOf(e) THEN imm.amount ELSE 0)
                          + (IF a = caller THEN imm.safetyDeposit ELSE 0)
                          - (IF a = e
                             THEN imm.safetyDeposit + (IF native THEN imm.amount ELSE 0)
                             ELSE 0)
       IN  r.ok => \A a \in DOMAIN eth :
                     /\ r.tok[a] = tok[a] + tokDelta(a)
                     /\ r.eth[a] = eth[a] + ethDelta(a)

\* Some withdrawal call by `sender` on escrow e with the valid secret goes
\* through: publicWithdraw on a destination escrow, and on a source escrow
\* any of its withdrawal functions with any immutables presented.
CanWithdraw(e, sender) ==
  \E secret \in Secrets :
    /\ Keccak256(secret) = created[e].immutables.hashlock
    /\ \E immutables \in PresentedImmutables(created[e].immutables, sender) :
         IF e \in DstEscrows
         THEN \/ DstPublicWithdrawCall(e, sender, secret, immutables).ok
              \/ DstWithdrawCall(e, sender, secret, immutables).ok
         ELSE \E target \in Users :
                SrcWithdrawCall(e, sender, secret, target, immutables).ok

\* C12: while a funded escrow is in [PublicWithdrawal, Cancellation) every
\* caller holding the valid secret can execute a withdrawal; before
\* PublicWithdrawal a caller other than the taker cannot.
C12_PublicWithdrawal ==
  \A e \in DOMAIN code :
    Funded(e)
    => /\ (now >= PublicWithdrawalOf(e) /\ now < CancellationOf(e))
          => \A sender \in Users : CanWithdraw(e, sender)
       /\ now < PublicWithdrawalOf(e)
          => \A sender \in Users \ {TakerOf(e)} : ~CanWithdraw(e, sender)

PublicCancellationOf(e) ==
  get(created[e].immutables.timelocks, SrcPublicCancellation)

\* C13: once the PublicCancellation time of a funded source escrow has come
\* (the destination side has no such stage), any caller, also one that is
\* neither maker nor taker, can execute a cancellation.
C13_PublicCancel ==
  \A e \in SrcEscrows :
    (Funded(e) /\ now >= PublicCancellationOf(e))
    => \A sender \in Users :
         \E immutables \in PresentedImmutables(created[e].immutables, sender) :
           SrcCancelCall(e, sender, immutables).ok

(***************************************************************************)
(* Creation through the factory.                                           *)
(***************************************************************************)
CreationOps == {"createSrcEscrow", "createDstEscrow"}

\* C14: a creation whose attached native value differs from safetyDeposit
\* plus (amount, when the token is the native sentinel) is rejected: no
\* escrow is deployed and neither tokens nor native value move.
C14_ValueMismatchRejected ==
  [][ ( /\ TxStep
        /\ last'.op \in CreationOps
        /\ last'.value # last'.immutables.safetyDeposit
                         + (IF last'.immutables.token = NativeToken
                            THEN last'.immutables.amount ELSE 0) )
      => ( /\ ~last'.ok
           /\ UNCHANGED <<code, created, eth, tok, events>> ) ]_vars

\* A destination creation with a wrong value whose other inputs are valid.
C14_Witness ==
  /\ last.op = "createDstEscrow"
  /\ ~last.ok
  /\ last.immutables.token = NativeToken
  /\ last.value = last.immutables.safetyDeposit
  /\ last.immutables.amount > 0
  /\ _validateTimelockSequence(setDeployedAt(last.immutables.timelocks, last.time))
  /\ get(setDeployedAt(last.immutables.timelocks, last.time), DstCancellation)
       <= last.srcCancellationTimestamp
  /\ DOMAIN code = {}

\* The DstCancellation timestamp of the creation recorded in tx: creation
\* time plus the DstCancellation offset.
DstCancellationAt(tx) ==
  get(setDeployedAt(tx.immutables.timelocks, tx.time), DstCancellation)

\* C15: a createDstEscrow whose DstCancellation timestamp is greater than or
\* equal to the supplied source cancellation deadline is rejected, equality
\* included.
C15_DeadlineReachedRejected ==
  [][ ( /\ TxStep
        /\ last'.op = "createDstEscrow"
        /\ DstCancellationAt(last') >= last'.srcCancellationTimestamp )
      => ~last'.ok ]_vars

\* C16: every deployed destination escrow has deployedAt + DstCancellation
\* offset <= srcCancellationTimestamp with deployedAt its creation time, and
\* a createDstEscrow that would break this reverts, deploys nothing and
\* moves no funds.
C16_DeadlineRespected ==
  [][ (TxStep /\ last'.op = "createDstEscrow")
      => /\ \A e \in DOMAIN code' :
              code'[e] = ESCROW_DST_IMPLEMENTATION
              => /\ Lane(created'[e].immutables.timelocks, DeployedAtLane) = created'[e].at
                 /\ created'[e].at + Lane(created'[e].immutables.timelocks, DstCancellation)
                      <= created'[e].srcCancellationTimestamp
         /\ DstCancellationAt(last') > last'.srcCancellationTimestamp
            => ( /\ ~last'.ok
                 /\ UNCHANGED <<code, created, eth, tok, events>> ) ]_vars

\* A creation rejected for its deadline alone: value and ordering are valid.
C16_Witness ==
  /\ last.op = "createDstEscrow"
  /\ ~last.ok
  /\ DstCancellationAt(last) > last.srcCancellationTimestamp
  /\ last.value = nativeAmount(last.immutables)
  /\ _validateTimelockSequence(setDeployedAt(last.immutables.timelocks, last.time))
  /\ DOMAIN code = {}

\* C17: createDstEscrow with a non-native token the caller holds, attached
\* value equal to the safety deposit, source lanes zero, destination offsets
\* strictly increasing and a deadline not before creation time plus the
\* DstCancellation offset succeeds, and the created escrow then holds
\* exactly `amount` of the token and `safetyDeposit` of native asset.
C17_FactoryTestCreation ==
  [][ ( /\ TxStep
        /\ last'.op = "createDstEscrow"
        /\ last'.immutables.token # NativeToken
        /\ tok[last'.sender] >= last'.immutables.amount
        /\ last'.value = last'.immutables.safetyDeposit
        /\ \A stage \in {SrcWithdrawal, SrcPublicWithdrawal, SrcCancellation,
                         SrcPublicCancellation} :
             Lane(last'.immutables.timelocks, stage) = 0
        /\ Lane(last'.immutables.timelocks, DstWithdrawal)
             < Lane(last'.immutables.timelocks, DstPublicWithdrawal)
        /\ Lane(last'.immutables.timelocks, DstPublicWithdrawal)
             < Lane(last'.immutables.timelocks, DstCancellation)
        /\ DstCancellationAt(last') <= last'.srcCancellationTimestamp )
      => ( /\ last'.ok
           /\ last'.escrow \in DOMAIN code'
           /\ tok'[last'.escrow] = last'.immutables.amount
           /\ eth'[last'.escrow] = last'.immutables.safetyDeposit ) ]_vars

\* The destination offsets of the creation recorded in tx are out of order.
DstOrderViolated(tx) ==
  \/ Lane(tx.immutables.timelocks, DstWithdrawal)
       >= Lane(tx.immutables.timelocks, DstPublicWithdrawal)
  \/ Lane(tx.immutables.timelocks, DstPublicWithdrawal)
       >= Lane(tx.immutables.timelocks, DstCancellation)

\* C18: createDstEscrow with DstWithdrawal >= DstPublicWithdrawal or
\* DstPublicWithdrawal >= DstCancellation is rejected before any transfer:
\* no escrow deployed, no token pulled, no native value kept.
C18_DstOrderRejected ==
  [][ ( /\ TxStep
        /\ last'.op = "createDstEscrow"
        /\ DstOrderViolated(last') )
      => ( /\ ~last'.ok
           /\ UNCHANGED <<code, created, eth, tok, events>> ) ]_vars

\* Scenario E: DstWithdrawal 3 >= DstPublicWithdrawal 2, everything else
\* valid (value, source order, destination before source, deadline).
C18_Witness ==
  /\ last.op = "createDstEscrow"
  /\ ~last.ok
  /\ Lane(last.immutables.timelocks, DstWithdrawal)
       >= Lane(last.immutables.timelocks, DstPublicWithdrawal)
  /\ Lane(last.immutables.timelocks, DstPublicWithdrawal)
       < Lane(last.immutables.timelocks, DstCancellation)
  /\ Lane(last.immutables.timelocks, SrcWithdrawal)
       < Lane(last.immutables.timelocks, SrcPublicWithdrawal)
  /\ Lane(last.immutables.timelocks, SrcPublicWithdrawal)
       < Lane(last.immutables.timelocks, SrcCancellation)
  /\ Lane(last.immutables.timelocks, SrcCancellation)
       < Lane(last.immutables.timelocks, SrcPublicCancellation)
  /\ Lane(last.immutables.timelocks, DstCancellation)
       < Lane(last.immutables.timelocks, SrcCancellation)
  /\ last.value = nativeAmount(last.immutables)
  /\ DstCancellationAt(last) <= last.srcCancellationTimestamp
  /\ tok[last.sender] >= last.immutables.amount
  /\ DOMAIN code = {}

\* C19: every escrow the factory created has the stage timestamps of its
\* own side in strictly increasing order: Withdrawal < PublicWithdrawal <
\* Cancellation (< PublicCancellation on the source side, which has that
\* stage).
C19_OwnSideMonotonic ==
  \A e \in DOMAIN code :
    /\ WithdrawalOf(e) < PublicWithdrawalOf(e)
    /\ PublicWithdrawalOf(e) < CancellationOf(e)
    /\ e \in SrcEscrows => CancellationOf(e) < PublicCancellationOf(e)

StageLanes ==
  {SrcWithdrawal, SrcPublicWithdrawal, SrcCancellation, SrcPublicCancellation,
   DstWithdrawal, DstPublicWithdrawal, DstCancellation}

\* C21: a successful creation deploys the escrow with the caller's seven
\* stage offsets unchanged and with the deployment lane equal to the block
\* timestamp whatever the caller had put there, at the address derived from
\* the immutables carrying that timestamp; and what an escrow was deployed
\* with never changes afterwards.
C21_DeployedAtSetOnce ==
  [][ /\ (TxStep /\ last'.op \in CreationOps /\ last'.ok)
         => LET e == last'.escrow
                supplied == last'.immutables
                deployed == created'[e].immutables
            IN  /\ e \notin DOMAIN code
                /\ e \in DOMAIN code'
                /\ \A stage \in StageLanes :
                     Lane(deployed.timelocks, stage) = Lane(supplied.timelocks, stage)
                /\ Lane(deployed.timelocks, DeployedAtLane) = now
                /\ [deployed EXCEPT !.timelocks = 0] = [supplied EXCEPT !.timelocks = 0]
                /\ e = predictDeterministicAddress(code'[e], hash(deployed), FACTORY)
      /\ \A e \in DOMAIN code :
           /\ e \in DOMAIN code'
           /\ code'[e] = code[e]
           /\ created'[e] = created[e] ]_vars

\* A source escrow created from timelocks whose deployment lane the caller
\* had filled with another time.
C21_Witness ==
  /\ last.op = "createSrcEscrow"
  /\ last.ok
  /\ last.escrow \in DOMAIN code
  /\ Lane(last.immutables.timelocks, DeployedAtLane) # last.time
  /\ Lane(last.immutables.timelocks, DeployedAtLane) # 0
  /\ Lane(created[last.escrow].immutables.timelocks, DeployedAtLane) = last.time

\* The key named by a role of the swap configuration.
KeyOf(role) == IF role = "resolver" THEN ResolverKey ELSE UserKey

\* A secret-branch spend by `key` with `preimage` is valid now; a
\* timeout-branch spend by `key` is valid now (its nLockTime has been reached).
RedeemLegal(key, preimage) == RedeemPath(htlc.script, key, preimage)

RefundLegal(key) == \E t \in 0..now : RefundPath(htlc.script, key, t)

\* C22: while the HTLC output is unspent, the secret branch is open only to
\* the redeemer's key with the preimage of secretHash and only while
\* now < locktime; the timeout branch is open only to the refunder's key and
\* only once now >= locktime; the two branches are never open together.
C22_ScriptPaths ==
  htlc.state = "funded" =>
    /\ \A key \in BtcKeys : \A s \in Secrets :
         RedeemLegal(key, s) =>
           /\ key = KeyOf(htlc.redeemer)
           /\ SHA256(s) = htlc.secretHash
           /\ now < htlc.locktime
    /\ \A key \in BtcKeys :
         RefundLegal(key) => key = KeyOf(htlc.refunder) /\ now >= htlc.locktime
    /\ ~ ( /\ \E key \in BtcKeys : \E s \in Secrets : RedeemLegal(key, s)
           /\ \E key \in BtcKeys : RefundLegal(key) )

\* The opcode at each position of the HTLC script (PUSHDATA where a data
\* buffer is pushed).
ScriptShape ==
  << OP_IF, PUSHDATA, OP_CHECKSIGVERIFY, OP_SHA256, PUSHDATA, OP_EQUALVERIFY,
     OP_ELSE, PUSHDATA, OP_CHECKLOCKTIMEVERIFY, OP_DROP, PUSHDATA,
     OP_CHECKSIGVERIFY, OP_ENDIF >>

\* C23: the script createHTLCScript returns is exactly OP_IF, redeemerPubKey,
\* OP_CHECKSIGVERIFY, OP_SHA256, secretHash, OP_EQUALVERIFY, OP_ELSE,
\* locktime, OP_CHECKLOCKTIMEVERIFY, OP_DROP, refunderPubKey,
\* OP_CHECKSIGVERIFY, OP_ENDIF: thirteen elements, the pushes carrying the
\* arguments, the locktime push reading back as the locktime.
C23_ScriptLayout ==
  (last.op = "createHTLCScript" /\ ~last.result.threw) =>
    LET script == last.result.script
    IN  /\ Len(script) = Len(ScriptShape)
        /\ \A i \in 1..Len(ScriptShape) : script[i].op = ScriptShape[i]
        /\ \A i \in 1..Len(ScriptShape) :
             ScriptShape[i] # PUSHDATA => script[i].data = EmptyBuffer
        /\ script[2].data = last.args[1]
        /\ script[5].data = last.args[3]
        /\ numberDecode(script[8].data) = last.args[4]
        /\ script[11].data = last.args[2]

C23_Witness ==
  /\ last.op = "createHTLCScript"
  /\ ~last.result.threw
  /\ last.args[1] # last.args[2]
  /\ last.args[4] = 300

\* C24: on a funded source escrow whose token is the native sentinel, the
\* transfers of withdraw go through and hand `amount` of native currency to
\* the taker, and the transfers of cancel go through and hand `amount` of
\* native currency to the maker: the principal can leave the escrow.
C24_NativeSourcePays ==
  \A e \in SrcEscrows :
    LET imm == created[e].immutables
        taker == TakerOf(e)
        maker == MakerOf(e)
        w == Src_withdrawTo_transfers(e, taker, taker, imm)
        c == Src_cancel_transfers(e, taker, imm)
    IN  (AddressLib_get(imm.token) = ZeroAddress /\ Funded(e))
        => /\ w.ok
           /\ w.eth[taker] = eth[taker] + imm.amount + imm.safetyDeposit
           /\ w.eth[e] = eth[e] - imm.amount - imm.safetyDeposit
           /\ c.ok
           /\ c.eth[maker] = eth[maker] + imm.amount
           /\ c.eth[e] = eth[e] - imm.amount - imm.safetyDeposit

\* C25: for stage offsets that fit their lanes, packed in stage order and
\* stamped with any deployedAt, the timestamp read back for every stage minus
\* deployedAt is the offset given for that stage, whatever the other lanes
\* hold.
C25_TimelockRoundTrip ==
  last.op = "packTimelocks" =>
    LET timeouts == last.args[1]
        deployedAt == last.args[2]
    IN  \A stage \in StageLanes :
          get(last.result, stage) - deployedAt = timeouts[stage + 1]

C25_Witness ==
  /\ last.op = "packTimelocks"
  /\ last.args[1] = <<LaneMod - 1, 0, LaneMod - 1, 0, LaneMod - 1, 0, LaneMod - 1>>
  /\ last.args[2] = MaxTime

ImmutablesFields ==
  {"orderHash", "hashlock", "maker", "taker", "token", "amount", "safetyDeposit",
   "timelocks"}

\* The fields in which two sets of immutables differ.
DiffFields(a, b) == { f \in ImmutablesFields : a[f] # b[f] }

CreatedEvent(tx) ==
  IF tx.op = "createSrcEscrow"
  THEN [emitter |-> FACTORY, name |-> "SrcEscrowCreated",
        args |-> <<tx.escrow, tx.immutables.hashlock,
                   AddressLib_get(tx.immutables.maker),
                   AddressLib_get(tx.immutables.taker)>>]
  ELSE [emitter |-> FACTORY, name |-> "DstEscrowCreated",
        args |-> <<tx.escrow, tx.immutables.hashlock, tx.immutables.taker>>]

\* C27: nothing the factory or an escrow emits or stores carries the secret
\* before a withdrawal goes through: a rejected transaction emits nothing, a
\* creation emits only its creation event, an EscrowWithdrawal(secret) comes
\* only from a successful withdrawal with that secret, and a secret becomes
\* known only through such an event.
C27_SecretConfidential ==
  [][ LET new == events' \ events
      IN  /\ events \subseteq events'
          /\ ~last'.ok => new = {}
          /\ (last'.ok /\ last'.op \in CreationOps) => new \subseteq {CreatedEvent(last')}
          /\ \A ev \in new :
               ev.name = "EscrowWithdrawal" =>
                 /\ last'.ok
                 /\ last'.op \in WithdrawalOps
                 /\ ev.emitter = last'.escrow
                 /\ ev.args = <<last'.secret>>
                 /\ onlyValidSecret(last'.secret, created[last'.escrow].immutables)
          /\ \A s \in revealed' \ revealed :
               \E ev \in new : ev.name = "EscrowWithdrawal" /\ ev.args = <<s>>
    ]_vars

C27_Witness ==
  /\ last.op \in WithdrawalOps
  /\ ~last.ok
  /\ last.escrow \in DOMAIN created
  /\ last.immutables = created[last.escrow].immutables
  /\ last.sender = TakerOf(last.escrow)
  /\ onlyValidSecret(last.secret, last.immutables)
  /\ events # {}
  /\ \A ev \in events : ev.emitter = FACTORY
  /\ revealed = {}

\* The public key the script checks in its secret branch and in its timeout
\* branch.
SecretBranchKey(script) == script[2].data

TimeoutBranchKey(script) == script[11].data

\* C28: the configuration setupBTCtoETH returns has direction 'BTC->ETH',
\* redeemer 'resolver', refunder 'user' and a script with the resolver's key
\* in the secret branch and the user's key in the timeout branch;
\* setupETHtoBTC returns the mirror image: direction 'ETH->BTC', redeemer
\* 'user', refunder 'resolver', the user's key in the secret branch and the
\* resolver's key in the timeout branch.
C28_SetupRoles ==
  /\ (last.op = "setupBTCtoETH" /\ ~last.result.threw) =>
       /\ last.result.direction = "BTC->ETH"
       /\ last.result.redeemer = "resolver"
       /\ last.result.refunder = "user"
       /\ SecretBranchKey(last.result.script) = last.args[2]
       /\ TimeoutBranchKey(last.result.script) = publicKey(last.args[1])
       /\ \A key \in BtcKeys :
            RefundPath(last.result.script, key, last.result.locktime)
              <=> key = last.args[1]
  /\ (last.op = "setupETHtoBTC" /\ ~last.result.threw) =>
       /\ last.result.direction = "ETH->BTC"
       /\ last.result.redeemer = "user"
       /\ last.result.refunder = "resolver"
       /\ SecretBranchKey(last.result.script) = last.args[1]
       /\ TimeoutBranchKey(last.result.script) = publicKey(last.args[2])
       /\ \A key \in BtcKeys :
            RefundPath(last.result.script, key, last.result.locktime)
              <=> key = last.args[2]

C28_Witness ==
  /\ last.op = "setupBTCtoETH"
  /\ ~last.result.threw
  /\ last.args[1] = UserKey
  /\ last.args[2] = publicKey(ResolverKey)
  /\ \E s \in Secrets : RedeemPath(last.result.script, ResolverKey, s)

\* C29: verifySecret(secret, hash) is true exactly when the SHA-256 digest
\* of the secret is the hash: the pair generateSecret returns verifies, and
\* its secret does not verify against any other hash.
C29_VerifySecret ==
  /\ last.op = "verifySecret" =>
       (last.result <=> last.args[2] = sha256(<<last.args[1]>>))
  /\ last.op = "generateSecret" =>
       /\ verifySecret(last.result.secret, last.result.hash)
       /\ \A h \in HashInputs :
            h # last.result.hash => ~verifySecret(last.result.secret, h)

C29_Witness ==
  /\ last.op = "verifySecret"
  /\ ~last.result
  /\ \E s \in Secrets : s # last.args[1] /\ last.args[2] = SHA256(s)

\* C30: createHTLCScript throws 'Secret hash must be 32 bytes' and returns
\* no script for every secretHash whose length is not 32, and does not throw
\* for a secretHash of 32 bytes.
C30_HashLengthChecked ==
  last.op = "createHTLCScript" =>
    /\ last.result.threw <=> Len(last.args[3]) # 32
    /\ last.result.threw =>
         /\ last.result.message = "Secret hash must be 32 bytes"
         /\ last.result.script = <<>>
    /\ ~last.result.threw => last.result.script # <<>>

C30_Witness ==
  /\ last.op = "createHTLCScript"
  /\ last.result.threw
  /\ Len(last.args[3]) = 33

\* C31: a successful createDstEscrow emits exactly one event,
\* DstEscrowCreated(escrow, hashlock, taker), whose escrow is the clone
\* deployed by that call, the one holding the attached value and the
\* tokens; a rejected createDstEscrow emits nothing.
C31_DstEscrowCreated ==
  [][ (last' # last /\ last'.op = "createDstEscrow") =>
        IF last'.ok
        THEN \E e \in DOMAIN code' \ DOMAIN code :
               /\ events' \ events =
                    {[emitter |-> FACTORY, name |-> "DstEscrowCreated",
                      args |-> <<e, last'.immutables.hashlock, last'.immutables.taker>>]}
               /\ code'[e] = ESCROW_DST_IMPLEMENTATION
               /\ eth'[e] = last'.value
               /\ tok'[e] = IF AddressLib_get(last'.immutables.token) = ZeroAddress
                            THEN 0 ELSE last'.immutables.amount
        ELSE events' = events
    ]_vars

C31_Witness ==
  /\ last.op = "createDstEscrow"
  /\ last.ok
  /\ AddressLib_get(last.immutables.token) = TokenAddr
  /\ last.escrow \in DOMAIN code
  /\ tok[last.escrow] = last.immutables.amount
  /\ eth[last.escrow] = last.immutables.safetyDeposit
  /\ \E ev \in events : ev.name = "DstEscrowCreated" /\ ev.args[1] = last.escrow

\* C32: the script of createHTLCScript evaluated on the witness stack of
\* createRedeemWitness, with a signature of the redeemer's key and a secret
\* whose SHA-256 digest is secretHash, succeeds.
C32_RedeemWitnessAccepted ==
  last.op = "createRedeemWitness" =>
    LET signingKey == last.args[1]
        redeemerPubKey == last.args[2]
        secret == last.args[3]
        secretHash == last.args[4]
    IN  (publicKey(signingKey) = redeemerPubKey /\ SHA256(secret) = secretHash)
          => last.result.eval.ok

\* C33: the script of createHTLCScript evaluated on the witness stack of
\* createRefundWitness, with a signature of the refunder's key, in a
\* transaction whose lock time is at least the script's locktime, succeeds.
C33_RefundWitnessAccepted ==
  last.op = "createRefundWitness" =>
    LET signingKey == last.args[1]
        refunderPubKey == last.args[2]
        locktime == last.args[3]
        txLocktime == last.args[4]
    IN  (publicKey(signingKey) = refunderPubKey /\ txLocktime >= locktime)
          => last.result.eval.ok

\* The time guards of withdraw and of publicWithdraw on destination escrow
\* e, with the immutables it was deployed with.
DstWithdrawWindow(e) ==
  /\ onlyAfter(get(created[e].immutables.timelocks, DstWithdrawal))
  /\ onlyBefore(get(created[e].immutables.timelocks, DstCancellation))

DstPublicWithdrawWindow(e) ==
  /\ onlyAfter(get(created[e].immutables.timelocks, DstPublicWithdrawal))
  /\ onlyBefore(get(created[e].immutables.timelocks, DstCancellation))

C35_MonitoredAddressFunded ==
  (swap.type = "source" /\ last.op = "createSrcEscrow" /\ last.ok
     /\ last.immutables = swap.immutables)
    => /\ last.escrow = swap.address
       /\ eth[swap.address] = swap.immutables.amount + swap.immutables.safetyDeposit

\* The script sigs (bottom item first) the holder of `key` can offer:
\* either branch, with or without a secret.
ScriptSigs(key) ==
  { << sign(key), selector >> : selector \in {numberEncode(1), EmptyBuffer} }
    \cup { << sign(key), <<secret>>, selector >> :
             secret \in Secrets, selector \in {numberEncode(1), EmptyBuffer} }

\* The script sig carries the preimage of the digest of secret s.
Reveals(stack, s) == \E i \in 1..Len(stack) : stack[i] = <<s>>

\* C36: in the script of BitcoinSDKHTLC.createHTLCScript the redeemer key
\* pubkey1 can spend only with a preimage of secretHash, the refunder key
\* pubkey2 can spend only once locktime is reached, and the script sig of
\* createRedeemTransaction with executeIf = true and the secret is a valid
\* spend by the redeemer.
C36_SdkScriptGuards ==
  (last.op = "BitcoinSDKHTLC.createHTLCScript" /\ last.args[1] # last.args[2]) =>
    LET key1 == last.args[1]
        key2 == last.args[2]
        s == last.args[3]
        locktime == last.args[4]
        script == last.result
    IN  /\ \A t \in 0..MaxTime : \A stack \in ScriptSigs(key1) :
             VerifyScriptSig(script, stack, t) => Reveals(stack, s)
        /\ \A t \in 0..MaxTime : \A stack \in ScriptSigs(key2) :
             VerifyScriptSig(script, stack, t) => t >= locktime
        /\ VerifyScriptSig(script, BitcoinSDKHTLC_scriptSig(key1, <<s>>, TRUE),
                           locktime)

\* The public keys in the script of BitcoinSDKHTLC.createHTLCScript: pubkey1
\* (redeemer) and pubkey2 (refunder).
SdkRedeemerPubKey(script) == script[5].data

SdkRefunderPubKey(script) == script[10].data

\* C37: in the configuration of BitcoinSDKCoordinator.setupBTCtoETH (resp.
\* setupETHtoBTC) the refunder key of the script is the public key of the
\* supplied userPrivateKey (resp. resolverPrivateKey), and the private keys
\* createRedeemTransaction and createRefundTransaction take from the
\* configuration are defined and are the keys of the script's redeemer and
\* refunder.
C37_SdkKeysMatch ==
  last.op \in {"BitcoinSDKCoordinator.setupBTCtoETH",
               "BitcoinSDKCoordinator.setupETHtoBTC"} =>
    LET swapConfig == last.result
        supplied == IF last.op = "BitcoinSDKCoordinator.setupBTCtoETH"
                    THEN last.args[1] ELSE last.args[2]
        redeemKey == BitcoinSDKCoordinator_redeemKey(swapConfig)
        refundKey == BitcoinSDKCoordinator_refundKey(swapConfig)
    IN  /\ SdkRefunderPubKey(swapConfig.htlcScript) = publicKey(supplied)
        /\ redeemKey # Undefined
        /\ refundKey # Undefined
        /\ publicKey(redeemKey) = SdkRedeemerPubKey(swapConfig.htlcScript)
        /\ publicKey(refundKey) = SdkRefunderPubKey(swapConfig.htlcScript)

\* The time guards of the source escrow's withdraw / withdrawTo and of
\* cancel on either side, with the immutables of the deployment.
SrcWithdrawWindow(e) ==
  /\ onlyAfter(get(created[e].immutables.timelocks, SrcWithdrawal))
  /\ onlyBefore(get(created[e].immutables.timelocks, SrcCancellation))

SrcCancelWindow(e) == onlyAfter(get(created[e].immutables.timelocks, SrcCancellation))

DstCancelWindow(e) == onlyAfter(get(created[e].immutables.timelocks, DstCancellation))

\* C38: at every time, for every escrow the factory created, the time guard
\* of cancel and the time guard of a withdrawal function are never both
\* satisfied, and on a destination escrow (the one that has publicWithdraw,
\* its timelocks validated at creation) withdraw's window is open whenever
\* publicWithdraw's window is open.
C38_WindowsDisjoint ==
  /\ \A e \in SrcEscrows : ~(SrcWithdrawWindow(e) /\ SrcCancelWindow(e))
  /\ \A e \in DstEscrows :
       /\ ~(DstWithdrawWindow(e) /\ DstCancelWindow(e))
       /\ ~(DstPublicWithdrawWindow(e) /\ DstCancelWindow(e))
       /\ DstPublicWithdrawWindow(e) => DstWithdrawWindow(e)

C38_Witness ==
  \E e \in DstEscrows :
    /\ DstPublicWithdrawWindow(e)
    /\ DstWithdrawWindow(e)
    /\ ~DstCancelWindow(e)
    /\ last.op = "publicWithdraw"
    /\ last.escrow = e
    /\ last.time = now

RECURSIVE SumOver(_, _)
SumOver(f, S) ==
  IF S = {} THEN 0
  ELSE LET a == CHOOSE x \in S : TRUE IN f[a] + SumOver(f, S \ {a})

\* What the factory put into escrow e at its creation.
DepositedEth(e) ==
  LET imm == created[e].immutables
  IN  imm.safetyDeposit
        + (IF AddressLib_get(imm.token) = ZeroAddress THEN imm.amount ELSE 0)

DepositedTok(e) ==
  LET imm == created[e].immutables
  IN  IF AddressLib_get(imm.token) = ZeroAddress THEN 0 ELSE imm.amount

\* The transfers r of a resolution of escrow e, called by `caller` and
\* paying `target`, conserve the funds: the escrow is emptied of exactly
\* what was deposited, what it loses is what the others gain, and only the
\* maker, the taker, the target and the caller gain.
Conserves(e, r, caller, target) ==
  LET others == DOMAIN eth \ {e}
      payees == {MakerOf(e), TakerOf(e), target, caller}
  IN  /\ r.eth[e] = 0
      /\ r.tok[e] = 0
      /\ SumOver(r.eth, others) = SumOver(eth, others) + DepositedEth(e)
      /\ SumOver(r.tok, others) = SumOver(tok, others) + DepositedTok(e)
      /\ \A a \in others :
           /\ r.eth[a] >= eth[a]
           /\ r.tok[a] >= tok[a]
           /\ a \notin payees => r.eth[a] = eth[a] /\ r.tok[a] = tok[a]

\* C39: an escrow never holds or pays more than was deposited at its
\* creation, and the transfers of each resolution of a funded escrow, when
\* they go through, pay no more than the deposit (principal <= amount,
\* native <= safetyDeposit, plus amount for the native token), pay only the
\* maker, the taker, the withdrawTo target or the caller, and leave the
\* escrow with neither principal nor safety deposit.
C39_Conservation ==
  \A e \in DOMAIN code :
    /\ eth[e] >= 0 /\ eth[e] <= DepositedEth(e)
    /\ tok[e] >= 0 /\ tok[e] <= DepositedTok(e)
    /\ Funded(e) =>
         \A caller \in Users :
           LET imm == created[e].immutables
           IN  IF e \in SrcEscrows
               THEN /\ \A target \in Users :
                         LET r == Src_withdrawTo_transfers(e, caller, target, imm)
                         IN  r.ok => Conserves(e, r, caller, target)
                    /\ LET r == Src_cancel_transfers(e, caller, imm)
                       IN  r.ok => Conserves(e, r, caller, caller)
               ELSE /\ LET r == Dst_withdraw_transfers(e, caller, imm)
                       IN  r.ok => Conserves(e, r, caller, caller)
                    /\ LET r == Dst_cancel_transfers(e, caller, imm)
                       IN  r.ok => Conserves(e, r, caller, caller)

C39_Witness ==
  \E e \in DstEscrows :
    /\ Funded(e)
    /\ AddressLib_get(created[e].immutables.token) = TokenAddr
    /\ now >= CancellationOf(e)
    /\ last.op = "cancel"
    /\ last.escrow = e
    /\ last.sender = TakerOf(e)
    /\ last.immutables = created[e].immutables
    /\ Dst_cancel_transfers(e, TakerOf(e), created[e].immutables).ok
    /\ Dst_withdraw_transfers(e, TakerOf(e), created[e].immutables).ok

====
